---- MODULE Spec2Model ----
(***************************************************************************)
(* The script-mediated exchange protocol of renderdog-automation: one      *)
(* facade call materializes the operation's script, allocates a run        *)
(* directory, clears a stale response, writes the request artifact, runs   *)
(* qrenderdoc --python in the run directory and decodes the response       *)
(* envelope the script left there.  The last part models the in-app API    *)
(* version negotiation of the renderdog crate.                             *)
(***************************************************************************)
EXTENDS Integers, Sequences, FiniteSets, TLC

\* Number of facade calls in flight (threads calling the same operation).
NumCalls == 2
\* Number of run directories left in scripts_dir by earlier attempts.
NumStale == 1

Calls == 1..NumCalls
StaleTokens == 1..NumStale
\* Uniqueness components a run directory name can carry.
Tokens == 1..(NumCalls + NumStale)
\* Directory ids: 0 is scripts_dir itself, t > 0 the run directory with token t.
DirIds == 0..(NumCalls + NumStale)

Ops == {"replay_save_outputs_png", "export_actions_jsonl"}

\* Paths are sequences of components; an absolute path starts with "/".
RelPath == <<"in.rdc">>
AbsPath == <<"/", "abs", "in.rdc">>
InputPaths == {RelPath, AbsPath}
\* The (capture_path, output_dir) pairs callers pass: each field is given
\* relative in one case and absolute in the other.
InputCases == {<<RelPath, AbsPath>>, <<AbsPath, RelPath>>}
\* The request call c is entered with: the calls' requests differ.
RequestOf(c) ==
    LET in == CHOOSE i \in InputCases :
                  i[1] = (IF c % 2 = 1 THEN RelPath ELSE AbsPath)
    IN [tag |-> c, capture_path |-> in[1], output_dir |-> in[2]]
Cwd == <<"/", "work">>

is_absolute(p) == Len(p) > 0 /\ p[1] = "/"

\* Path::join: an absolute argument replaces the base.
join(base, p) == IF is_absolute(p) THEN p ELSE base \o p

resolve_path_string_from_cwd(cwd, value) == join(cwd, value)

VARIABLES
    op,                 \* the operation every call of this run invokes
    request,            \* request[c]: the typed request the caller passed to call c
    scripts_dir_exists, \* whether <cwd>/artifacts/renderdoc/scripts exists
    script_file,        \* content of scripts_dir/<op>.py
    dirs,               \* tokens of the run directories that exist
    fs,                 \* fs[d][name]: content of file name in directory d
    pc,                 \* pc[c]: the step call c executes next
    run_dir,            \* run_dir[c]: the run directory allocated to call c (0: none yet)
    host,               \* host[c]: the qrenderdoc process call c launched
    outcome,            \* outcome[c]: what call c returned
    steps,              \* steps[c]: the steps call c has executed, in order
    guard,              \* guard[c]: what call c's remove_if_exists found and did
    api,                \* the in-app API negotiation (RenderDocInApp::resolve_api)
    install,            \* the toolchain discovery (RenderDocInstallation::detect)
    convert,            \* the settings conversions being performed (settings.rs)
    tool,               \* the one-shot tool call in progress (renderdog-mcp)
    script              \* an execution of an embedded replay script

\* The variables of the exchange protocol.
facade == <<op, request, scripts_dir_exists, script_file, dirs, fs, pc, run_dir,
            host, outcome, steps, guard>>

vars == <<op, request, scripts_dir_exists, script_file, dirs, fs, pc, run_dir,
          host, outcome, steps, guard, api, install, convert, tool, script>>

----------------------------------------------------------------------------
\* File names and file contents

\* The replay operations of replay.rs.
ReplayOps ==
    {"replay_list_textures", "replay_pick_pixel", "replay_save_texture_png",
     "replay_save_outputs_png"}

\* let request_path = run_dir.join("<name>");
RequestName(o) ==
    CASE o = "replay_list_textures" -> "replay_list_textures_json.request.json"
      [] o = "replay_pick_pixel" -> "replay_pick_pixel_json.request.json"
      [] o = "replay_save_texture_png" -> "replay_save_texture_png_json.request.json"
      [] o = "replay_save_outputs_png" -> "replay_save_outputs_png_json.request.json"
      [] OTHER -> "export_actions_jsonl.request.json"

\* let response_path = run_dir.join("<name>");
ResponseName(o) ==
    CASE o = "replay_list_textures" -> "replay_list_textures_json.response.json"
      [] o = "replay_pick_pixel" -> "replay_pick_pixel_json.response.json"
      [] o = "replay_save_texture_png" -> "replay_save_texture_png_json.response.json"
      [] o = "replay_save_outputs_png" -> "replay_save_outputs_png_json.response.json"
      [] OTHER -> "export_actions_jsonl.response.json"

ScriptName(o) ==
    IF o = "replay_save_outputs_png"
    THEN "replay_save_outputs_png_json.py"
    ELSE "export_actions_jsonl.py"

\* A script reading its request from a name of its own.
ScriptReqPath_Generic(o) == "request.json"

\* REQ_PATH = "<name>" in the script of the operation, relative to the host's
\* working directory.
ScriptReqPath(o) ==
    CASE o = "replay_list_textures" -> "replay_list_textures_json.request.json"
      [] o = "replay_pick_pixel" -> "replay_pick_pixel_json.request.json"
      [] o = "replay_save_texture_png" -> "replay_save_texture_png_json.request.json"
      [] o = "replay_save_outputs_png" -> "replay_save_outputs_png_json.request.json"
      [] OTHER -> "export_actions_jsonl.request.json"

\* RESP_PATH = "<name>" in the script of the operation.
ScriptRespPath(o) ==
    CASE o = "replay_list_textures" -> "replay_list_textures_json.response.json"
      [] o = "replay_pick_pixel" -> "replay_pick_pixel_json.response.json"
      [] o = "replay_save_texture_png" -> "replay_save_texture_png_json.response.json"
      [] o = "replay_save_outputs_png" -> "replay_save_outputs_png_json.response.json"
      [] OTHER -> "export_actions_jsonl.response.json"

\* A name no operation uses for an artifact.
TempName == "artifact.tmp"

\* The file names a directory under scripts_dir can hold.
FileNames ==
    {RequestName(o) : o \in Ops} \cup {ResponseName(o) : o \in Ops} \cup {TempName}

NoFile == [kind |-> "none"]
Garbage == [kind |-> "garbage"]
RequestFile(r) == [kind |-> "request", body |-> r]

JAbsent == [shape |-> "absent"]
JString(s) == [shape |-> "string", s |-> s]
JObject(v) == [shape |-> "object", v |-> v]
Envelope(ok, result, error) ==
    [kind |-> "envelope", ok |-> ok, result |-> result, error |-> error]

\* What the script computes from the request it read: the scripts echo the
\* request's paths in their payload.
Payload(r) == [tag |-> r.tag, capture_path |-> r.capture_path, output_dir |-> r.output_dir]

StaleRequest == [tag |-> 0, capture_path |-> AbsPath, output_dir |-> AbsPath]
StaleResponse == Envelope("true", JObject(Payload(StaleRequest)), JAbsent)

EmptyDir == [n \in FileNames |-> NoFile]
StaleDir(o) ==
    [n \in FileNames |->
        IF n = RequestName(o) THEN RequestFile(StaleRequest)
        ELSE IF n = ResponseName(o) THEN StaleResponse
        ELSE NoFile]

----------------------------------------------------------------------------
\* The facade's own paths

\* A facade that exchanges its artifacts directly in scripts_dir.
exchange_dir_Shared(c) == 0

\* let run_dir = create_qrenderdoc_run_dir(..)?: the directory call c
\* exchanges its artifacts in.
exchange_dir(c) == run_dir[c]

\* let script_path = scripts_dir.join(<script name>)
script_path(o) == <<0, ScriptName(o)>>

\* A facade that keeps the request artifact next to the script.
request_path_InScriptsDir(c) == <<0, RequestName(op)>>

\* let request_path = run_dir.join(<request name>)
request_path(c) == <<exchange_dir(c), RequestName(op)>>
response_path(c) == <<exchange_dir(c), ResponseName(op)>>

ReadFile(p) == fs[p[1]][p[2]]
\* A writer that goes through a temporary file and leaves it behind.
WriteFile_ViaTemp(f, p, content) ==
    [f EXCEPT ![p[1]][p[2]] = content, ![p[1]][TempName] = content]

\* std::fs::write(path, content)
WriteFile(f, p, content) == [f EXCEPT ![p[1]][p[2]] = content]

----------------------------------------------------------------------------
\* Results and errors of a facade call

DefaultResponse == [tag |-> 0, capture_path |-> <<>>, output_dir |-> <<>>]
Outcome(kind, msg, result) == [kind |-> kind, msg |-> msg, result |-> result]
Pending == Outcome("pending", "", DefaultResponse)
Ok(r) == Outcome("Ok", "", r)
Err(kind) == Outcome(kind, "", DefaultResponse)
ScriptError(msg) == Outcome("ScriptError", msg, DefaultResponse)

\* The variant scripts-dir and run-dir creation errors are mapped to.
DirErrorKind(o) ==
    IF o = "export_actions_jsonl" THEN "CreateOutputDir" ELSE "CreateScriptsDir"

----------------------------------------------------------------------------
\* The order of a facade call's steps; `?` returns at the first failure.

StepOrder ==
    << "create_dir_all", "write_script_file", "create_qrenderdoc_run_dir",
       "remove_if_exists", "write_request", "run_qrenderdoc_python",
       "read_response" >>

\* A facade that clears the response artifact after the host has run.
NextStep_GuardAfterHost(s) ==
    CASE s = "create_dir_all" -> "write_script_file"
      [] s = "write_script_file" -> "create_qrenderdoc_run_dir"
      [] s = "create_qrenderdoc_run_dir" -> "write_request"
      [] s = "write_request" -> "run_qrenderdoc_python"
      [] s = "run_qrenderdoc_python" -> "remove_if_exists"
      [] s = "remove_if_exists" -> "read_response"
      [] s = "read_response" -> "done"

NextStep(s) ==
    CASE s = "create_dir_all" -> "write_script_file"
      [] s = "write_script_file" -> "create_qrenderdoc_run_dir"
      [] s = "create_qrenderdoc_run_dir" -> "remove_if_exists"
      [] s = "remove_if_exists" -> "write_request"
      [] s = "write_request" -> "run_qrenderdoc_python"
      [] s = "run_qrenderdoc_python" -> "read_response"
      [] s = "read_response" -> "done"

\* A facade that records a failure and carries on with the next step.
AfterStep_Continue(s, ok) == NextStep(s)

\* A facade that tries a failed step again.
AfterStep_Retrying(s, ok) == IF ok THEN NextStep(s) ELSE s

\* A facade that, after a failed step, waits instead of returning.
AfterStep_WaitOnFailure(s, ok) == IF ok THEN NextStep(s) ELSE "waiting"

\* `?` after every step: go on, or return the error.
AfterStep(s, ok) == IF ok THEN NextStep(s) ELSE "done"

\* Call c has executed step s with the given success and, on failure, error.
Advance(c, s, ok, err) ==
    /\ pc' = [pc EXCEPT ![c] = AfterStep(s, ok)]
    /\ outcome' = [outcome EXCEPT ![c] = IF ok THEN @ ELSE err]

Log(c, s) == steps' = [steps EXCEPT ![c] = Append(@, s)]

----------------------------------------------------------------------------
\* Request writer

\* The request as serialized into the request artifact.
SerializedRequest(o, cwd, req) ==
    IF o = "export_actions_jsonl"
    THEN [req EXCEPT !.capture_path = resolve_path_string_from_cwd(cwd, @),
                     !.output_dir = resolve_path_string_from_cwd(cwd, @)]
    ELSE req

----------------------------------------------------------------------------
\* Stale response guard

\* What std::fs::remove_file can report for path p in file system f.
RemoveFileOutcomes(f, p) ==
    (IF f[p[1]][p[2]].kind = "none" THEN {"NotFound"} ELSE {"Removed"})
        \cup {"PermissionDenied"}

\* A guard that sweeps the response artifacts of every run directory.
remove_if_exists_Sweeping(f, p, os) ==
    [fs |-> IF os = "PermissionDenied" THEN f
            ELSE [d \in DOMAIN f |-> [f[d] EXCEPT ![p[2]] = NoFile]],
     result |-> IF os = "PermissionDenied" THEN "Err" ELSE "Ok"]

\* A guard that is a bare remove_file: not-found is an error.
remove_if_exists_Strict(f, p, os) ==
    [fs |-> IF os = "Removed" THEN [f EXCEPT ![p[1]][p[2]] = NoFile] ELSE f,
     result |-> IF os = "Removed" THEN "Ok" ELSE "Err"]

\* remove_if_exists(path) when remove_file reports os: the file system
\* afterwards and the Result returned.
remove_if_exists(f, p, os) ==
    [fs |-> IF os = "Removed" THEN [f EXCEPT ![p[1]][p[2]] = NoFile] ELSE f,
     result |-> CASE os = "Removed" -> "Ok"
                  [] os = "NotFound" -> "Ok"
                  [] OTHER -> "Err"]

\* A facade with an error kind of its own for the failed deletion.
GuardError_Own == Err("RemoveResponse")

\* remove_if_exists(&response_path).map_err(..Error::WriteRequest)?
GuardError == Err("WriteRequest")

NoGuard == [ran |-> FALSE, existed |-> FALSE, os |-> "", result |-> "",
            after |-> NoFile, untouched |-> TRUE]

\* The record of one remove_if_exists(p) run in file system f.
GuardRecord(f, p, os) ==
    LET r == remove_if_exists(f, p, os)
    IN [ran |-> TRUE, existed |-> f[p[1]][p[2]].kind # "none", os |-> os,
        result |-> r.result, after |-> r.fs[p[1]][p[2]], untouched |-> r.fs = f]

----------------------------------------------------------------------------
\* Response reader / envelope decoder

\* serde_json::from_slice::<QRenderDocJsonEnvelope<T>>(bytes)
from_slice(bytes) ==
    IF bytes.kind # "envelope" THEN [parsed |-> FALSE]
    ELSE IF bytes.ok \notin {"true", "false"} THEN [parsed |-> FALSE]
    ELSE IF bytes.result.shape \notin {"absent", "object"} THEN [parsed |-> FALSE]
    ELSE IF bytes.error.shape \notin {"absent", "string"} THEN [parsed |-> FALSE]
    ELSE [parsed |-> TRUE, ok |-> bytes.ok = "true",
          result |-> bytes.result, error |-> bytes.error]

\* A decoder that replaces the host's message by its own.
ResolveEnvelope_OwnMessage(env) ==
    IF env.ok
    THEN IF env.result.shape = "object"
         THEN Ok(env.result.v)
         ELSE ScriptError("missing result")
    ELSE ScriptError(IF env.error.shape = "string"
                     THEN "script failed"
                     ELSE "unknown error")

\* A decoder that takes a missing result for the default response.
ResolveEnvelope_DefaultResult(env) ==
    IF env.ok
    THEN IF env.result.shape = "object"
         THEN Ok(env.result.v)
         ELSE Ok(DefaultResponse)
    ELSE ScriptError(IF env.error.shape = "string"
                     THEN env.error.s
                     ELSE "unknown error")

\* A decoder that takes a missing error string for the empty message.
ResolveEnvelope_EmptyMessage(env) ==
    IF env.ok
    THEN IF env.result.shape = "object"
         THEN Ok(env.result.v)
         ELSE ScriptError("missing result")
    ELSE ScriptError(IF env.error.shape = "string"
                     THEN env.error.s
                     ELSE "")

\* if env.ok { env.result.ok_or_else(..) } else { Err(ScriptError(..)) }
ResolveEnvelope(env) ==
    IF env.ok
    THEN IF env.result.shape = "object"
         THEN Ok(env.result.v)
         ELSE ScriptError("missing result")
    ELSE ScriptError(IF env.error.shape = "string"
                     THEN env.error.s
                     ELSE "unknown error")

\* A reader that takes a missing response artifact for an empty success.
ReadResponseOutcome_Lenient(bytes, readable) ==
    IF bytes.kind = "none" \/ ~readable THEN Ok(DefaultResponse)
    ELSE LET env == from_slice(bytes)
         IN IF env.parsed THEN ResolveEnvelope(env) ELSE Err("ParseJson")

\* std::fs::read(&response_path) followed by the decoding; readable is
\* FALSE when the read hits an I/O error.
ReadResponseOutcome(bytes, readable) ==
    IF bytes.kind = "none" \/ ~readable THEN Err("ReadResponse")
    ELSE LET env == from_slice(bytes)
         IN IF env.parsed THEN ResolveEnvelope(env) ELSE Err("ParseJson")

----------------------------------------------------------------------------
\* Host script

\* What a run of the script does: the envelope it writes, if any, and
\* whether the process then exits with status 0 or (nonzero, crash) not.
HostBehaviours ==
    {"ok", "ok_nonzero", "ok_no_result", "err", "err_nonzero", "err_no_error",
     "garbage", "crash"}

\* A process that was given an empty or partly written script file runs no
\* script body: it exits without writing a response.
HostBehavioursOf(ran) == IF ran = "text" THEN HostBehaviours ELSE {"crash"}

ExitStatus(b) == IF b \in {"ok_nonzero", "err_nonzero", "crash"} THEN 1 ELSE 0

\* state: none, running, read, exited; wd: its working directory; script,
\* args: the script path and extra arguments it was launched with; ran: the
\* content of the script file it loaded; req: what it read from REQ_PATH;
\* wrote: what it wrote to RESP_PATH; status: its exit status.
NoHost == [state |-> "none", wd |-> 0, script |-> <<0, "">>, args |-> <<>>,
           ran |-> "none", req |-> NoFile, wrote |-> NoFile, status |-> 0]

\* What the script writes to RESP_PATH, having read req from REQ_PATH.  A
\* script that cannot read its request raises and reports the traceback.
HostResponse(b, req) ==
    IF req.kind # "request"
    THEN Envelope("false", JAbsent, JString("traceback"))
    ELSE CASE b \in {"ok", "ok_nonzero"} ->
                Envelope("true", JObject(Payload(req.body)), JAbsent)
           [] b = "ok_no_result" -> Envelope("true", JAbsent, JAbsent)
           [] b \in {"err", "err_nonzero"} ->
                Envelope("false", JAbsent, JString("capture not found"))
           [] b = "err_no_error" -> Envelope("false", JAbsent, JAbsent)
           [] OTHER -> Garbage

----------------------------------------------------------------------------
\* In-app API version negotiation (renderdog::RenderDocInApp::resolve_api)

\* let preferred = [eRENDERDOC_API_Version_1_6_0, .., eRENDERDOC_API_Version_1_0_0]
preferred ==
    << <<1, 6, 0>>, <<1, 5, 0>>, <<1, 4, 2>>, <<1, 4, 1>>, <<1, 4, 0>>,
       <<1, 3, 0>>, <<1, 2, 0>>, <<1, 1, 2>>, <<1, 1, 1>>, <<1, 1, 0>>,
       <<1, 0, 2>>, <<1, 0, 1>>, <<1, 0, 0>> >>

Versions == {preferred[i] : i \in 1..Len(preferred)}

\* v is an older version than w.
VersionLess(v, w) ==
    \/ v[1] < w[1]
    \/ v[1] = w[1] /\ v[2] < w[2]
    \/ v[1] = w[1] /\ v[2] = w[2] /\ v[3] < w[3]

\* Largest number of versions an irregular library serves.
MaxAccepted == 2

\* How a library answers RENDERDOC_GetAPI for a version it does not serve:
\* 0 and a null pointer, 1 and a null pointer, or 0 and a stray pointer.
Refusals == {"zero_null", "one_null", "zero_ptr"}

\* The sets of versions a loaded library serves: every version up to its
\* own (a RenderDoc release), or any few versions.
AcceptSets ==
    {{preferred[j] : j \in i..Len(preferred)} : i \in 1..(Len(preferred) + 1)}
        \cup {a \in SUBSET Versions : Cardinality(a) <= MaxAccepted}

Libraries == [accepts : AcceptSets, refusal : Refusals]

\* get_api(version, &mut out): the return value and the pointer stored in out.
RENDERDOC_GetAPI(lib, version) ==
    IF version \in lib.accepts THEN [ret |-> 1, out |-> "api"]
    ELSE CASE lib.refusal = "zero_null" -> [ret |-> 0, out |-> "null"]
           [] lib.refusal = "one_null" -> [ret |-> 1, out |-> "null"]
           [] OTHER -> [ret |-> 0, out |-> "stray"]

\* A negotiation that trusts the return value alone.
Accepted_IgnoringNull(r) == r.ret = 1

\* if ok == 1 && !out.is_null()
Accepted(r) == r.ret = 1 /\ r.out # "null"

ApiResult(kind, version) == [kind |-> kind, version |-> version]
ApiPending == ApiResult("pending", <<>>)
NoLibrary == [accepts |-> {}, refusal |-> "zero_null"]

\* pc: idle, resolve_api, loop, done; present: whether the RENDERDOC_GetAPI
\* pointer is Some; i: the index into preferred the loop stands at; tried:
\* the versions get_api was called with, in order.
ApiIdle == [pc |-> "idle", present |-> FALSE, lib |-> NoLibrary, i |-> 1,
            tried |-> <<>>, result |-> ApiPending]

----------------------------------------------------------------------------
\* Toolchain discovery (RenderDocInstallation, toolchain.rs)

Platforms == {"windows", "unix"}

qrenderdoc_exe_name(platform) ==
    IF platform = "windows" THEN "qrenderdoc.exe" ELSE "qrenderdoc"

renderdoccmd_exe_name(platform) ==
    IF platform = "windows" THEN "renderdoccmd.exe" ELSE "renderdoccmd"

ExeNames == {qrenderdoc_exe_name(p) : p \in Platforms}
                \cup {renderdoccmd_exe_name(p) : p \in Platforms}

\* Option<T>: None is the empty sequence, Some(x) the one-element sequence.
None == <<>>
Some(x) == <<x>>

\* The directories of the machine detect() may look into.
DirA == <<"/", "opt", "renderdoc">>
DirB == <<"/", "usr", "bin">>
ProgramFilesDir == <<"/", "Program Files">>
ProgramFilesRenderDoc == join(ProgramFilesDir, <<"RenderDoc">>)
InstallDirs == {DirA, DirB, ProgramFilesRenderDoc}

\* What a directory entry can be.
EntryKinds == {"absent", "file", "dir"}

\* A directory: whether it exists and what each executable name is in it.
DirWith(platform, q, c) ==
    [exists |-> TRUE,
     entries |-> [n \in ExeNames |->
                     IF n = qrenderdoc_exe_name(platform) THEN q
                     ELSE IF n = renderdoccmd_exe_name(platform) THEN c
                     ELSE "absent"]]
NoDir == [exists |-> FALSE, entries |-> [n \in ExeNames |-> "absent"]]
\* A directory holding the other platform's executables only.
ForeignInstall(platform) ==
    DirWith(IF platform = "windows" THEN "unix" ELSE "windows", "file", "file")

DirStates(platform) ==
    {DirWith(platform, "file", "file"), DirWith(platform, "file", "absent"),
     DirWith(platform, "absent", "file"), DirWith(platform, "absent", "absent"),
     DirWith(platform, "dir", "file"), ForeignInstall(platform), NoDir}
DefaultDirStates(platform) ==
    {DirWith(platform, "file", "file"), DirWith(platform, "file", "absent"),
     DirWith(platform, "absent", "absent"), NoDir}

\* Path::parent and Path::file_name of a non-empty path.
parent(p) == SubSeq(p, 1, Len(p) - 1)
file_name(p) == p[Len(p)]

\* Path::is_file / Path::is_dir against the directories files describes.
is_file(files, p) ==
    /\ Len(p) > 0
    /\ parent(p) \in DOMAIN files
    /\ file_name(p) \in ExeNames
    /\ files[parent(p)].entries[file_name(p)] = "file"

is_dir(files, p) == p \in DOMAIN files /\ files[p].exists

NoInstallation ==
    [kind |-> "Pending", root_dir |-> <<>>, qrenderdoc_exe |-> <<>>,
     renderdoccmd_exe |-> <<>>, missing |-> ""]
Installation(root_dir, qrenderdoc_exe, renderdoccmd_exe) ==
    [NoInstallation EXCEPT !.kind = "Ok", !.root_dir = root_dir,
                           !.qrenderdoc_exe = qrenderdoc_exe,
                           !.renderdoccmd_exe = renderdoccmd_exe]
MissingComponent(root_dir, name) ==
    [NoInstallation EXCEPT !.kind = "MissingComponent", !.root_dir = root_dir,
                           !.missing = name]
NotFound == [NoInstallation EXCEPT !.kind = "NotFound"]

\* from_root_dir checking renderdoccmd before qrenderdoc.
from_root_dir_CmdFirst(platform, files, root_dir) ==
    LET qrenderdoc_exe == join(root_dir, <<qrenderdoc_exe_name(platform)>>)
        renderdoccmd_exe == join(root_dir, <<renderdoccmd_exe_name(platform)>>)
    IN IF ~is_file(files, renderdoccmd_exe)
       THEN MissingComponent(root_dir, renderdoccmd_exe_name(platform))
       ELSE IF ~is_file(files, qrenderdoc_exe)
       THEN MissingComponent(root_dir, qrenderdoc_exe_name(platform))
       ELSE Installation(root_dir, qrenderdoc_exe, renderdoccmd_exe)

from_root_dir(platform, files, root_dir) ==
    LET qrenderdoc_exe == join(root_dir, <<qrenderdoc_exe_name(platform)>>)
        renderdoccmd_exe == join(root_dir, <<renderdoccmd_exe_name(platform)>>)
    IN IF ~is_file(files, qrenderdoc_exe)
       THEN MissingComponent(root_dir, qrenderdoc_exe_name(platform))
       ELSE IF ~is_file(files, renderdoccmd_exe)
       THEN MissingComponent(root_dir, renderdoccmd_exe_name(platform))
       ELSE Installation(root_dir, qrenderdoc_exe, renderdoccmd_exe)

\* find_in_path: the first PATH directory holding a file of that name.
find_in_path(files, path_env, exe_name) ==
    IF path_env = None THEN None
    ELSE LET ds == path_env[1]
             hits == {i \in 1..Len(ds) : is_file(files, join(ds[i], <<exe_name>>))}
         IN IF hits = {} THEN None
            ELSE LET i == CHOOSE h \in hits : \A k \in hits : h <= k
                 IN Some(join(ds[i], <<exe_name>>))

from_path_env(platform, files, path_env) ==
    LET qrenderdoc == find_in_path(files, path_env, qrenderdoc_exe_name(platform))
        renderdoccmd == find_in_path(files, path_env, renderdoccmd_exe_name(platform))
    IN IF qrenderdoc = None \/ renderdoccmd = None THEN None
       ELSE Some(Installation(parent(qrenderdoc[1]), qrenderdoc[1], renderdoccmd[1]))

\* The RENDERDOG_RENDERDOC_DIR branch, falling through when the directory
\* is not an installation.
detect_override_FallingBack(platform, files, env_dir) ==
    IF env_dir # None /\ from_root_dir(platform, files, env_dir[1]).kind = "Ok"
    THEN Some(from_root_dir(platform, files, env_dir[1]))
    ELSE None

\* if let Some(candidate) = env::var_os("RENDERDOG_RENDERDOC_DIR") { return .. }
detect_override(platform, files, env_dir) ==
    IF env_dir # None
    THEN Some(from_root_dir(platform, files, env_dir[1]))
    ELSE None

\* The cfg(windows) block: ProgramFiles/RenderDoc when it is an installation.
detect_default(platform, files, program_files) ==
    IF platform = "windows" /\ program_files # None
    THEN LET candidate == join(program_files[1], <<"RenderDoc">>)
         IN IF is_dir(files, candidate)
                /\ from_root_dir(platform, files, candidate).kind = "Ok"
            THEN Some(from_root_dir(platform, files, candidate))
            ELSE None
    ELSE None

\* The values of PATH: unset, or a list of directories.
PathEnvs == {None, Some(<<DirA>>), Some(<<DirA, DirB>>), Some(<<DirB, DirA>>)}

InstallIdle ==
    [pc |-> "done", entry |-> "none", platform |-> "unix",
     env_dir |-> None, program_files |-> None, path_env |-> None,
     files |-> [d \in InstallDirs |-> NoDir],
     arg |-> <<>>, consulted |-> <<>>, result |-> NoInstallation]

----------------------------------------------------------------------------
\* Typed settings wrappers (settings.rs): the enums and the match arms of
\* their conversions to the renderdog_sys constants.

\* enum CaptureOption
CaptureOption ==
    {"AllowVSync", "AllowFullscreen", "ApiValidation", "CaptureCallstacks",
     "CaptureCallstacksOnlyDraws", "DelayForDebugger",
     "VerifyBufferAccess", "HookIntoChildren", "RefAllResources",
     "SaveAllInitials", "CaptureAllCmdLists", "DebugOutputMute",
     "AllowUnsupportedVendorExtensions", "SoftMemoryLimit"}

\* enum InputButton
InputButton ==
    {"Key0", "Key1", "Key2", "Key3", "Key4", "Key5", "Key6", "Key7",
     "Key8", "Key9", "A", "B", "C", "D", "E", "F", "G", "H", "I", "J", "K",
     "L", "M", "N", "O", "P", "Q", "R", "S", "T", "U", "V", "W", "X", "Y",
     "Z", "Divide", "Multiply", "Subtract", "Plus", "F1", "F2", "F3", "F4",
     "F5", "F6", "F7", "F8", "F9", "F10", "F11", "F12", "Home", "End",
     "Insert", "Delete", "PageUp", "PageDn", "Backspace", "Tab", "PrtScrn",
     "Pause", "Max"}

\* A renderdog_sys constant: the enum prefix of its identifier and the rest.
sys_constant(prefix, suffix) == [prefix |-> prefix, suffix |-> suffix]
Unmatched == sys_constant("", "")

\* The arms of `match value` in From<CaptureOption>, in order: the variant
\* and the suffix of the eRENDERDOC_Option_ constant it yields.
CaptureOptionArms ==
    <<<<"AllowVSync", "AllowVSync">>,
      <<"AllowFullscreen", "AllowFullscreen">>,
      <<"ApiValidation", "APIValidation">>,
      <<"CaptureCallstacks", "CaptureCallstacks">>,
      <<"CaptureCallstacksOnlyDraws", "CaptureCallstacksOnlyDraws">>,
      <<"DelayForDebugger", "DelayForDebugger">>,
      <<"VerifyBufferAccess", "VerifyBufferAccess">>,
      <<"HookIntoChildren", "HookIntoChildren">>,
      <<"RefAllResources", "RefAllResources">>,
      <<"SaveAllInitials", "SaveAllInitials">>,
      <<"CaptureAllCmdLists", "CaptureAllCmdLists">>,
      <<"DebugOutputMute", "DebugOutputMute">>,
      <<"AllowUnsupportedVendorExtensions", "AllowUnsupportedVendorExtensions">>,
      <<"SoftMemoryLimit", "SoftMemoryLimit">>>>

\* The arms of `match value` in From<InputButton>: the variant and the
\* suffix of the eRENDERDOC_Key_ constant it yields.
InputButtonArms ==
    <<<<"Key0", "0">>, <<"Key1", "1">>, <<"Key2", "2">>, <<"Key3", "3">>,
      <<"Key4", "4">>, <<"Key5", "5">>, <<"Key6", "6">>, <<"Key7", "7">>,
      <<"Key8", "8">>, <<"Key9", "9">>, <<"A", "A">>, <<"B", "B">>,
      <<"C", "C">>, <<"D", "D">>, <<"E", "E">>, <<"F", "F">>, <<"G", "G">>,
      <<"H", "H">>, <<"I", "I">>, <<"J", "J">>, <<"K", "K">>, <<"L", "L">>,
      <<"M", "M">>, <<"N", "N">>, <<"O", "O">>, <<"P", "P">>, <<"Q", "Q">>,
      <<"R", "R">>, <<"S", "S">>, <<"T", "T">>, <<"U", "U">>, <<"V", "V">>,
      <<"W", "W">>, <<"X", "X">>, <<"Y", "Y">>, <<"Z", "Z">>,
      <<"Divide", "Divide">>, <<"Multiply", "Multiply">>,
      <<"Subtract", "Subtract">>, <<"Plus", "Plus">>, <<"F1", "F1">>,
      <<"F2", "F2">>, <<"F3", "F3">>, <<"F4", "F4">>, <<"F5", "F5">>,
      <<"F6", "F6">>, <<"F7", "F7">>, <<"F8", "F8">>, <<"F9", "F9">>,
      <<"F10", "F10">>, <<"F11", "F11">>, <<"F12", "F12">>,
      <<"Home", "Home">>, <<"End", "End">>, <<"Insert", "Insert">>,
      <<"Delete", "Delete">>, <<"PageUp", "PageUp">>,
      <<"PageDn", "PageDn">>, <<"Backspace", "Backspace">>,
      <<"Tab", "Tab">>, <<"PrtScrn", "PrtScrn">>, <<"Pause", "Pause">>,
      <<"Max", "Max">>>>

\* match: the first arm whose pattern is the value.
Match(arms, prefix, value) ==
    LET hits == {i \in 1..Len(arms) : arms[i][1] = value}
    IN IF hits = {} THEN Unmatched
       ELSE LET i == CHOOSE h \in hits : \A k \in hits : h <= k
            IN sys_constant(prefix, arms[i][2])

\* From<InputButton> with the arms of F11 and F12 yielding the same constant.
from_InputButton_F11Twice(value) ==
    IF value = "F12" THEN sys_constant("eRENDERDOC_Key_", "F11")
    ELSE Match(InputButtonArms, "eRENDERDOC_Key_", value)

\* impl From<CaptureOption> for sys::RENDERDOC_CaptureOption
from_CaptureOption(value) == Match(CaptureOptionArms, "eRENDERDOC_Option_", value)

\* impl From<InputButton> for sys::RENDERDOC_InputButton
from_InputButton(value) == Match(InputButtonArms, "eRENDERDOC_Key_", value)

\* The number of conversions one run performs.
NumConversions == 2

ConvertIdle ==
    [pc |-> "done", type |-> "none",
     values |-> [i \in 1..NumConversions |-> ""],
     converted |-> <<>>]

----------------------------------------------------------------------------
\* One-shot MCP tools (renderdog-mcp main.rs) and export_bundle_jsonl

Tools ==
    {"capture_and_export_actions_jsonl", "capture_and_export_bindings_index_jsonl",
     "capture_and_export_bundle_jsonl", "find_events_and_save_outputs_png",
     "export_bundle_jsonl"}
CaptureTools ==
    {"capture_and_export_actions_jsonl", "capture_and_export_bindings_index_jsonl",
     "capture_and_export_bundle_jsonl"}

\* What launch_capture and trigger_capture_via_target_control can return.
TargetIdents == {7, 9}
CapturePaths == {<<"/", "captures", "frame.rdc">>, <<"frame.rdc">>}

\* A sub-call a tool made, with the arguments the properties speak about.
SubCall(fn, target_ident, capture_path, output_dir, event_id) ==
    [fn |-> fn, target_ident |-> target_ident, capture_path |-> capture_path,
     output_dir |-> output_dir, event_id |-> event_id]

\* ExportActionsResponse / ExportBindingsIndexResponse as the scripts report
\* them: the capture_path echoed or canonicalized, paths and counters.
ExportVariants == {"echo", "canonical"}
Reported(capture_path, v) ==
    IF v = "echo" THEN capture_path ELSE <<"/", "canonical", "frame.rdc">>
ExportActionsResponse(capture_path, output_dir, v) ==
    [capture_path |-> Reported(capture_path, v),
     actions_jsonl_path |-> output_dir \o <<"frame.actions.jsonl">>,
     summary_json_path |-> output_dir \o <<"frame.summary.json">>,
     total_actions |-> IF v = "echo" THEN 5 ELSE 8,
     drawcall_actions |-> IF v = "echo" THEN 3 ELSE 4]
ExportBindingsIndexResponse(capture_path, output_dir, v) ==
    [capture_path |-> Reported(capture_path, v),
     bindings_jsonl_path |-> output_dir \o <<"frame.bindings.jsonl">>,
     summary_json_path |-> output_dir \o <<"frame.bindings_summary.json">>,
     total_drawcalls |-> IF v = "echo" THEN 2 ELSE 6]
NoActions == ExportActionsResponse(<<>>, <<>>, "echo")
NoBindings == ExportBindingsIndexResponse(<<>>, <<>>, "echo")

\* Result<ExportBundleResponse, ExportBundleError>
NoBundle ==
    [kind |-> "Pending", error |-> "", capture_path |-> <<>>,
     actions_jsonl_path |-> <<>>, actions_summary_json_path |-> <<>>,
     total_actions |-> 0, drawcall_actions |-> 0,
     bindings_jsonl_path |-> <<>>, bindings_summary_json_path |-> <<>>,
     total_drawcalls |-> 0]
ExportBundleError(variant) == [NoBundle EXCEPT !.kind = "Err", !.error = variant]

\* Ok(ExportBundleResponse { .. })
ExportBundleResponse(capture_path, actions, bindings) ==
    [NoBundle EXCEPT !.kind = "Ok", !.capture_path = capture_path,
        !.actions_jsonl_path = actions.actions_jsonl_path,
        !.actions_summary_json_path = actions.summary_json_path,
        !.total_actions = actions.total_actions,
        !.drawcall_actions = actions.drawcall_actions,
        !.bindings_jsonl_path = bindings.bindings_jsonl_path,
        !.bindings_summary_json_path = bindings.summary_json_path,
        !.total_drawcalls = bindings.total_drawcalls]

\* FindEventsResponse as find_events can return it.
FindEventsResponses ==
    [total_matches : {0, 2},
     first_event_id : {None, Some(10)},
     last_event_id : {None, Some(30)},
     matches : {<<>>, <<11>>, <<11, 29>>}]
NoFind ==
    [total_matches |-> 0, first_event_id |-> None, last_event_id |-> None,
     matches |-> <<>>]

\* #[serde(default)] selection: FindEventSelection, with #[default] Last.
Selections == {"omitted", "first", "last"}
FindEventSelection(selection) ==
    IF selection = "first" THEN "First" ELSE "Last"

\* Option::or_else
or_else(opt, alt) == IF opt # None THEN opt ELSE alt
first(s) == IF Len(s) = 0 THEN None ELSE Some(s[1])
last(s) == IF Len(s) = 0 THEN None ELSE Some(s[Len(s)])

\* `match req.selection` preferring the listed matches to the reported ids.
selected_event_id_ListFirst(selection, find) ==
    IF selection = "First"
    THEN or_else(first(find.matches), find.first_event_id)
    ELSE or_else(last(find.matches), find.last_event_id)

\* let selected_event_id = match req.selection { .. } (None: the ok_or_else error)
selected_event_id(selection, find) ==
    IF selection = "First"
    THEN or_else(find.first_event_id, first(find.matches))
    ELSE or_else(find.last_event_id, last(find.matches))

ToolRequests ==
    [save_thumbnail : BOOLEAN, open_capture_ui : BOOLEAN,
     selection : Selections, capture_path : InputPaths, output_dir : InputPaths]
NoToolRequest ==
    [save_thumbnail |-> FALSE, open_capture_ui |-> FALSE, selection |-> "omitted",
     capture_path |-> RelPath, output_dir |-> AbsPath]

NoToolResult == [kind |-> "Pending", error |-> "", selected_event_id |-> 0]
ToolOk(selected) == [NoToolResult EXCEPT !.kind = "Ok", !.selected_event_id = selected]
ToolErr(message) == [NoToolResult EXCEPT !.kind = "Err", !.error = message]

ToolIdle ==
    [name |-> "none", pc |-> "done", req |-> NoToolRequest, calls |-> <<>>,
     target_ident |-> 0, capture_path |-> <<>>, output_dir |-> <<>>,
     find |-> NoFind, selected |-> 0,
     actions |-> NoActions, bindings |-> NoBindings, bundle |-> NoBundle,
     result |-> NoToolResult]

----------------------------------------------------------------------------
\* The embedded replay scripts (replay.rs): main() and the __main__ block

\* The run directory of the call and the files an execution can touch in it.
RunDirPath == Cwd \o <<"artifacts", "renderdoc", "scripts", "run">>
ScriptFileNames ==
    UNION {{RequestName(o), ResponseName(o), ScriptReqPath(o), ScriptRespPath(o)} :
              o \in ReplayOps}
ScriptFilePaths == {RunDirPath \o <<n>> : n \in ScriptFileNames}

\* The payload main() writes with write_response before it returns.
BarePayload(r) == [kind |-> "payload", body |-> Payload(r)]

\* An except branch that leaves a payload main() already wrote.
except_Exception_KeepPayload(present) ==
    IF present.kind = "payload" THEN present
    ELSE Envelope("false", JAbsent, JString("traceback"))

\* except Exception: write_response({"ok": False, "error": traceback.format_exc()})
except_Exception(present) == Envelope("false", JAbsent, JString("traceback"))

\* else: payload = json.load(f); write_response({"ok": True, "result": payload})
else_wrap(present) == Envelope("true", JObject(present.body), JAbsent)

ScriptIdle ==
    [op |-> "none", pc |-> "exited", wd |-> <<>>, request |-> StaleRequest,
     files |-> [f \in ScriptFilePaths |-> NoFile],
     req |-> NoFile, payload |-> NoFile, raised |-> "no", status |-> -1,
     read |-> NoFile]

----------------------------------------------------------------------------
\* Initial state: the calls have been entered; scripts_dir is either absent
\* or was used before and holds an older script and stale run directories.

Init ==
    /\ op \in Ops
    /\ request = [c \in Calls |-> RequestOf(c)]
    /\ \E used \in BOOLEAN :
          /\ scripts_dir_exists = used
          /\ script_file = IF used THEN "old" ELSE "absent"
          /\ dirs = IF used THEN StaleTokens ELSE {}
          /\ fs = [d \in DirIds |->
                      IF used /\ d \in StaleTokens THEN StaleDir(op) ELSE EmptyDir]
    /\ pc = [c \in Calls |-> "create_dir_all"]
    /\ run_dir = [c \in Calls |-> 0]
    /\ host = [c \in Calls |-> NoHost]
    /\ outcome = [c \in Calls |-> Pending]
    /\ steps = [c \in Calls |-> <<>>]
    /\ guard = [c \in Calls |-> NoGuard]
    /\ api = ApiIdle
    /\ install = InstallIdle
    /\ convert = ConvertIdle
    /\ tool = ToolIdle
    /\ script = ScriptIdle

----------------------------------------------------------------------------
\* Steps of a facade call

\* std::fs::create_dir_all(&scripts_dir)
CreateScriptsDir(c) ==
    /\ pc[c] = "create_dir_all"
    /\ \E ok \in BOOLEAN :
          /\ scripts_dir_exists' = (scripts_dir_exists \/ ok)
          /\ Advance(c, "create_dir_all", ok, Err(DirErrorKind(op)))
    /\ Log(c, "create_dir_all")
    /\ UNCHANGED <<script, tool, convert, install, api, op, request, script_file, dirs, fs, run_dir, host, guard>>

\* A materializer that takes a short write for a complete one.
write_script_file_Short(old, text) == old

\* The script file after write_script_file has written text over old.
write_script_file(old, text) == text

\* write_script_file(&script_path, <script text>), first half: the file is
\* created or truncated for writing, or cannot be opened.
WriteScriptOpen(c) ==
    /\ pc[c] = "write_script_file"
    /\ \/ /\ script_file' = "truncated"
          /\ pc' = [pc EXCEPT ![c] = "write_script_file_body"]
          /\ UNCHANGED <<outcome, steps>>
       \/ /\ UNCHANGED script_file
          /\ Advance(c, "write_script_file", FALSE, Err("WriteScript"))
          /\ Log(c, "write_script_file")
    /\ UNCHANGED <<script, tool, convert, install, api, op, request, scripts_dir_exists, dirs, fs, run_dir, host, guard>>

\* write_script_file, second half: the text is written into the open file,
\* or the write fails and leaves the file as it is.
WriteScript(c) ==
    /\ pc[c] = "write_script_file_body"
    /\ \E ok \in BOOLEAN :
          /\ script_file' = IF ok THEN write_script_file(script_file, "text")
                                  ELSE script_file
          /\ Advance(c, "write_script_file", ok, Err("WriteScript"))
    /\ Log(c, "write_script_file")
    /\ UNCHANGED <<script, tool, convert, install, api, op, request, scripts_dir_exists, dirs, fs, run_dir, host, guard>>

\* An allocator whose uniqueness component can repeat: create_dir_all on a
\* name that may already exist.
AllocatableTokens_Reusing(c) == Tokens

\* The directories create_qrenderdoc_run_dir may hand out to call c: one
\* that does not exist yet.  Unused names are interchangeable, so the one
\* named after the call stands for whichever the uniqueness component yields.
AllocatableTokens(c) == {t \in Tokens \ dirs : t = NumStale + c}

\* create_qrenderdoc_run_dir(&scripts_dir, <prefix>)
CreateRunDir(c) ==
    /\ pc[c] = "create_qrenderdoc_run_dir"
    /\ \/ \E t \in AllocatableTokens(c) :
             /\ dirs' = dirs \cup {t}
             /\ run_dir' = [run_dir EXCEPT ![c] = t]
             /\ Advance(c, "create_qrenderdoc_run_dir", TRUE, Pending)
       \/ /\ UNCHANGED <<dirs, run_dir>>
          /\ Advance(c, "create_qrenderdoc_run_dir", FALSE, Err(DirErrorKind(op)))
    /\ Log(c, "create_qrenderdoc_run_dir")
    /\ UNCHANGED <<script, tool, convert, install, api, op, request, scripts_dir_exists, script_file, fs, host, guard>>

\* remove_if_exists(&response_path).map_err(WriteRequest)?
RemoveIfExists(c) ==
    /\ pc[c] = "remove_if_exists"
    /\ \E os \in RemoveFileOutcomes(fs, response_path(c)) :
          LET r == remove_if_exists(fs, response_path(c), os)
          IN /\ fs' = r.fs
             /\ guard' = [guard EXCEPT ![c] = GuardRecord(fs, response_path(c), os)]
             /\ Advance(c, "remove_if_exists", r.result = "Ok", GuardError)
    /\ Log(c, "remove_if_exists")
    /\ UNCHANGED <<script, tool, convert, install, api, op, request, scripts_dir_exists, script_file, dirs, run_dir, host>>

\* std::fs::write(&request_path, serde_json::to_vec(&req).map_err(ParseJson)?)
\*     .map_err(WriteRequest)?: serialization fails, or the write fails, or
\* the request artifact is written.
WriteRequest(c) ==
    /\ pc[c] = "write_request"
    /\ \/ /\ UNCHANGED fs
          /\ Advance(c, "write_request", FALSE, Err("ParseJson"))
       \/ \E ok \in BOOLEAN :
             /\ fs' = IF ok
                      THEN WriteFile(fs, request_path(c),
                                     RequestFile(SerializedRequest(op, Cwd, request[c])))
                      ELSE fs
             /\ Advance(c, "write_request", ok, Err("WriteRequest"))
    /\ Log(c, "write_request")
    /\ UNCHANGED <<script, tool, convert, install, api, op, request, scripts_dir_exists, script_file, dirs, run_dir,
                   host, guard>>

\* A facade that passes the request artifact's name to the script as an
\* extra argument.
QRenderDocPythonRequest_WithArgs(c) ==
    [script_path |-> script_path(op), args |-> <<RequestName(op)>>,
     working_dir |-> exchange_dir(c)]

\* &QRenderDocPythonRequest { script_path: script_path.clone(),
\*     args: Vec::new(), working_dir: Some(run_dir.clone()) }
QRenderDocPythonRequest(c) ==
    [script_path |-> script_path(op), args |-> <<>>, working_dir |-> exchange_dir(c)]

\* self.run_qrenderdoc_python(..)?: the process is launched as the request
\* says and loads the script file as it is at that moment, or the launch
\* fails.
RunQRenderDocPython(c) ==
    /\ pc[c] = "run_qrenderdoc_python"
    /\ host[c].state = "none"
    /\ \/ LET r == QRenderDocPythonRequest(c)
          IN /\ host' = [host EXCEPT ![c] = [NoHost EXCEPT !.state = "running",
                                                             !.wd = r.working_dir,
                                                             !.script = r.script_path,
                                                             !.args = r.args,
                                                             !.ran = script_file]]
             /\ UNCHANGED <<pc, outcome>>
       \/ /\ Advance(c, "run_qrenderdoc_python", FALSE, Err("QRenderDocPython"))
          /\ UNCHANGED host
    /\ Log(c, "run_qrenderdoc_python")
    /\ UNCHANGED <<script, tool, convert, install, api, op, request, scripts_dir_exists, script_file, dirs, fs,
                   run_dir, guard>>

\* The script opens REQ_PATH in its working directory.
HostReadRequest(c) ==
    /\ host[c].state = "running"
    /\ host[c].ran = "text"
    /\ host' = [host EXCEPT ![c].state = "read",
                            ![c].req = fs[host[c].wd][ScriptReqPath(op)]]
    /\ UNCHANGED <<script, tool, convert, install, api, op, request, scripts_dir_exists, script_file, dirs, fs, pc,
                   run_dir, outcome, steps, guard>>

\* A facade that takes a non-zero exit status for a failed invocation.
ResultAccepted_StatusChecked(result) == result.status = 0

\* let _ = result;: the facade looks at nothing of the process outcome.
ResultAccepted(result) == TRUE

\* The script writes RESP_PATH in its working directory and the process
\* exits, or the process dies without writing anything; run_qrenderdoc_python,
\* which was waiting for the exit, returns the process outcome whatever the
\* exit status.
HostFinish(c) ==
    /\ pc[c] = "run_qrenderdoc_python"
    /\ \/ host[c].state = "read"
       \/ host[c].state = "running" /\ host[c].ran # "text"
    /\ \E b \in HostBehavioursOf(host[c].ran) :
          LET wrote == IF b = "crash" THEN NoFile ELSE HostResponse(b, host[c].req)
              exited == [host[c] EXCEPT !.state = "exited",
                                        !.status = ExitStatus(b),
                                        !.wrote = wrote]
          IN /\ fs' = IF b = "crash"
                      THEN fs
                      ELSE WriteFile(fs, <<host[c].wd, ScriptRespPath(op)>>, wrote)
             /\ host' = [host EXCEPT ![c] = exited]
             /\ Advance(c, "run_qrenderdoc_python", ResultAccepted(exited),
                        Err("QRenderDocPython"))
    /\ UNCHANGED <<script, tool, convert, install, api, op, request, scripts_dir_exists, script_file, dirs,
                   run_dir, steps, guard>>

\* std::fs::read(&response_path), from_slice, and the envelope's resolution.
ReadResponse(c) ==
    /\ pc[c] = "read_response"
    /\ \E readable \in BOOLEAN :
          /\ pc' = [pc EXCEPT ![c] = AfterStep("read_response", FALSE)]
          /\ outcome' = [outcome EXCEPT ![c] =
                            ReadResponseOutcome(ReadFile(response_path(c)), readable)]
    /\ Log(c, "read_response")
    /\ UNCHANGED <<script, tool, convert, install, api, op, request, scripts_dir_exists, script_file, dirs, fs,
                   run_dir, host, guard>>

Next ==
    \E c \in Calls :
        \/ CreateScriptsDir(c)
        \/ WriteScriptOpen(c)
        \/ WriteScript(c)
        \/ CreateRunDir(c)
        \/ RemoveIfExists(c)
        \/ WriteRequest(c)
        \/ RunQRenderDocPython(c)
        \/ HostReadRequest(c)
        \/ HostFinish(c)
        \/ ReadResponse(c)

Spec == Init /\ [][Next]_vars

----------------------------------------------------------------------------
\* The stale response guard on its own: every call stands before its
\* remove_if_exists, in a run directory that holds whatever an earlier
\* attempt left under the response name.

LeftoverResponses == {NoFile, StaleResponse, Garbage}

InitGuard ==
    /\ op \in Ops
    /\ request = [c \in Calls |-> RequestOf(c)]
    /\ scripts_dir_exists = TRUE
    /\ script_file = "text"
    /\ dirs = Calls
    /\ run_dir = [c \in Calls |-> c]
    /\ \E left \in [Calls -> LeftoverResponses] :
          fs = [d \in DirIds |->
                   IF d \in Calls
                   THEN [EmptyDir EXCEPT ![ResponseName(op)] = left[d]]
                   ELSE EmptyDir]
    /\ pc = [c \in Calls |-> "remove_if_exists"]
    /\ host = [c \in Calls |-> NoHost]
    /\ outcome = [c \in Calls |-> Pending]
    /\ steps = [c \in Calls |-> SubSeq(StepOrder, 1, 3)]
    /\ guard = [c \in Calls |-> NoGuard]
    /\ api = ApiIdle
    /\ install = InstallIdle
    /\ convert = ConvertIdle
    /\ tool = ToolIdle
    /\ script = ScriptIdle

NextGuard == \E c \in Calls : RemoveIfExists(c)

SpecGuard == InitGuard /\ [][NextGuard]_vars

----------------------------------------------------------------------------
\* The API negotiation on its own: resolve_api is entered with the
\* RENDERDOC_GetAPI pointer of some loaded library, or with None.

\* No facade call is in flight.
FacadeAtRest ==
    /\ op = "replay_save_outputs_png"
    /\ request = [c \in Calls |-> RequestOf(c)]
    /\ scripts_dir_exists = FALSE
    /\ script_file = "absent"
    /\ dirs = {}
    /\ fs = [d \in DirIds |-> EmptyDir]
    /\ pc = [c \in Calls |-> "done"]
    /\ run_dir = [c \in Calls |-> 0]
    /\ host = [c \in Calls |-> NoHost]
    /\ outcome = [c \in Calls |-> Pending]
    /\ steps = [c \in Calls |-> <<>>]
    /\ guard = [c \in Calls |-> NoGuard]

InitApi ==
    /\ FacadeAtRest
    /\ install = InstallIdle
    /\ convert = ConvertIdle
    /\ tool = ToolIdle
    /\ script = ScriptIdle
    /\ \/ api = [ApiIdle EXCEPT !.pc = "resolve_api"]
       \/ \E lib \in Libraries :
             api = [ApiIdle EXCEPT !.pc = "resolve_api", !.present = TRUE, !.lib = lib]

\* let get_api = get_api.ok_or(InAppError::MissingGetApi)?;
ResolveApiGetApi ==
    /\ api.pc = "resolve_api"
    /\ api' = IF api.present
              THEN [api EXCEPT !.pc = "loop"]
              ELSE [api EXCEPT !.pc = "done",
                               !.result = ApiResult("MissingGetApi", <<>>)]
    /\ UNCHANGED <<script, tool, convert, install, facade>>

\* One iteration of `for version in preferred`.
ResolveApiTry ==
    /\ api.pc = "loop"
    /\ api.i <= Len(preferred)
    /\ LET version == preferred[api.i]
           r == RENDERDOC_GetAPI(api.lib, version)
       IN api' = IF Accepted(r)
                 THEN [api EXCEPT !.pc = "done",
                                  !.tried = Append(@, version),
                                  !.result = ApiResult("Ok", version)]
                 ELSE [api EXCEPT !.i = @ + 1,
                                  !.tried = Append(@, version)]
    /\ UNCHANGED <<script, tool, convert, install, facade>>

\* Err(InAppError::GetApiFailedAllVersions) after the loop.
ResolveApiExhausted ==
    /\ api.pc = "loop"
    /\ api.i > Len(preferred)
    /\ api' = [api EXCEPT !.pc = "done",
                          !.result = ApiResult("GetApiFailedAllVersions", <<>>)]
    /\ UNCHANGED <<script, tool, convert, install, facade>>

NextApi == ResolveApiGetApi \/ ResolveApiTry \/ ResolveApiExhausted

SpecApi == InitApi /\ [][NextApi]_vars

----------------------------------------------------------------------------
\* Script materialization on its own: the calls create scripts_dir and
\* write the script file, which is absent, holds an older version of the
\* script, or was edited by hand.

ScriptContents == {"absent", "old", "edited"}

InitScript ==
    /\ op \in Ops
    /\ request = [c \in Calls |-> RequestOf(c)]
    /\ script_file \in ScriptContents
    /\ scripts_dir_exists = (script_file # "absent")
    /\ dirs = {}
    /\ fs = [d \in DirIds |-> EmptyDir]
    /\ pc = [c \in Calls |-> "create_dir_all"]
    /\ run_dir = [c \in Calls |-> 0]
    /\ host = [c \in Calls |-> NoHost]
    /\ outcome = [c \in Calls |-> Pending]
    /\ steps = [c \in Calls |-> <<>>]
    /\ guard = [c \in Calls |-> NoGuard]
    /\ api = ApiIdle
    /\ install = InstallIdle
    /\ convert = ConvertIdle
    /\ tool = ToolIdle
    /\ script = ScriptIdle

NextScript ==
    \E c \in Calls : CreateScriptsDir(c) \/ WriteScriptOpen(c) \/ WriteScript(c)

SpecScript == InitScript /\ [][NextScript]_vars

----------------------------------------------------------------------------
\* Helpers of the properties

IsPrefix(s, t) == Len(s) <= Len(t) /\ s = SubSeq(t, 1, Len(s))
Executed(c, s) == \E i \in 1..Len(steps[c]) : steps[c][i] = s
Returned(c) == pc[c] = "done"
\* The call read its response artifact and the read did not fail.
Decoded(c) == Returned(c) /\ Executed(c, "read_response")
                 /\ outcome[c].kind # "ReadResponse"
WrittenRequest(c) == RequestFile(SerializedRequest(op, Cwd, request[c]))

----------------------------------------------------------------------------
C2_Isolation ==
    \A c \in Calls :
        /\ (host[c].state \in {"read", "exited"} /\ host[c].ran = "text") =>
              host[c].req = WrittenRequest(c)
        /\ (Returned(c) /\ Executed(c, "read_response")) =>
              \E readable \in BOOLEAN :
                  outcome[c] = ReadResponseOutcome(host[c].wrote, readable)
        /\ outcome[c].kind = "Ok" => outcome[c].result.tag = c

C2_Witness ==
    /\ \A c \in Calls : outcome[c].kind = "Ok"
    /\ \E c, d \in Calls : outcome[c].result # outcome[d].result

\* C3: remove_if_exists leaves the response artifact absent and returns Ok
\* when the file existed and was deleted, returns Ok and changes nothing
\* when the file did not exist, and fails only on a deletion error other
\* than not-found.
C3_StaleGuard ==
    \A c \in Calls :
        guard[c].ran =>
            /\ (guard[c].existed /\ guard[c].os = "Removed") =>
                  (guard[c].result = "Ok" /\ guard[c].after = NoFile)
            /\ guard[c].result = "Ok" => guard[c].after = NoFile
            /\ ~guard[c].existed =>
                  (guard[c].untouched /\ (guard[c].os = "NotFound" => guard[c].result = "Ok"))
            /\ guard[c].result = "Err" <=> guard[c].os \notin {"Removed", "NotFound"}
            /\ guard[c].result = "Err" => guard[c].untouched
            /\ guard[c].result = "Ok" => pc[c] = "write_request"

C3_Witness ==
    /\ \E c \in Calls :
          guard[c].ran /\ guard[c].existed /\ guard[c].result = "Ok"
             /\ ReadFile(response_path(c)) = NoFile
    /\ \E c \in Calls :
          guard[c].ran /\ ~guard[c].existed /\ guard[c].result = "Ok"

\* C4: a call whose host process exited without writing the response
\* artifact returns the response-read failure, whatever scripts_dir held
\* before.
C4_NoResponseIsReadFailure ==
    \A c \in Calls :
        (Returned(c) /\ host[c].state = "exited" /\ host[c].wrote = NoFile) =>
            outcome[c] = Err("ReadResponse")

C4_Witness ==
    \E c \in Calls :
        /\ Returned(c) /\ host[c].state = "exited" /\ host[c].wrote = NoFile
        /\ \E t \in StaleTokens : fs[t][ResponseName(op)] = StaleResponse

\* C5: a call that decoded {ok: true, result: r} returns Ok(r), and one
\* that decoded {ok: false, error: e} returns ScriptError(e) with e as the
\* host wrote it.
C5_EnvelopeDecoding ==
    \A c \in Calls :
        Decoded(c) =>
            LET f == ReadFile(response_path(c))
            IN f.kind = "envelope" =>
                  /\ (f.ok = "true" /\ f.result.shape = "object") =>
                        outcome[c] = Ok(f.result.v)
                  /\ (f.ok = "false" /\ f.error.shape = "string") =>
                        outcome[c] = ScriptError(f.error.s)

C5_Witness ==
    /\ \E c \in Calls :
          Decoded(c) /\ outcome[c] = ScriptError("capture not found")
    /\ \E c \in Calls :
          Decoded(c) /\ outcome[c] = Ok(Payload(SerializedRequest(op, Cwd, request[c])))

\* The call decoded an envelope with ok = true and no result field.
MissingResultCase(c) ==
    /\ Decoded(c)
    /\ LET f == ReadFile(response_path(c))
       IN f.kind = "envelope" /\ f.ok = "true" /\ f.result.shape = "absent"

MissingErrorCase(c) ==
    /\ Decoded(c)
    /\ LET f == ReadFile(response_path(c))
       IN f.kind = "envelope" /\ f.ok = "false" /\ f.error.shape = "absent"

\* C7: an ok = false envelope without error string decodes and yields
\* ScriptError("unknown error"), not the envelope-parse failure.
C7_UnknownError ==
    \A c \in Calls :
        MissingErrorCase(c) => outcome[c] = ScriptError("unknown error")

C7_Witness == \E c \in Calls : MissingErrorCase(c)

\* C8 as stated: the request artifact of every operation holds each path
\* field joined onto cwd when it was relative and unchanged when absolute,
\* so never a relative path.
C8_PathsRewritten ==
    \A c \in Calls :
        LET f == ReadFile(request_path(c))
        IN (Executed(c, "write_request") /\ f.kind = "request") =>
              /\ f.body.capture_path = join(Cwd, request[c].capture_path)
              /\ f.body.output_dir = join(Cwd, request[c].output_dir)
              /\ is_absolute(f.body.capture_path)
              /\ is_absolute(f.body.output_dir)

\* C9: a call executes its steps in the one order of StepOrder; the host
\* process starts only after the stale response was cleared and the
\* request artifact written, and the response is read only after the host
\* process has exited.
C9_StepOrder ==
    \A c \in Calls :
        /\ IsPrefix(steps[c], StepOrder)
        /\ host[c].state # "none" =>
              /\ IsPrefix(SubSeq(StepOrder, 1, 6), steps[c])
              /\ guard[c].ran /\ guard[c].result = "Ok"
              /\ ReadFile(request_path(c)) = WrittenRequest(c)
        /\ host[c].state \in {"running", "read"} =>
              ReadFile(response_path(c)) = NoFile
        /\ Executed(c, "read_response") => host[c].state = "exited"

C9_Witness ==
    \E c \in Calls : Returned(c) /\ steps[c] = StepOrder /\ outcome[c].kind = "Ok"

\* The steps whose failure (or, for the last, completion) returns kind.
StepsReturning(kind) ==
    CASE kind = DirErrorKind(op) -> {"create_dir_all", "create_qrenderdoc_run_dir"}
      [] kind = "WriteScript" -> {"write_script_file"}
      [] kind = "WriteRequest" -> {"remove_if_exists", "write_request"}
      [] kind = "QRenderDocPython" -> {"run_qrenderdoc_python"}
      [] kind = "ParseJson" -> {"write_request", "read_response"}
      [] OTHER -> {"read_response"}

\* C10: a call returns at its first failing step: it has then executed no
\* later step, no host process was spawned when a step before the
\* invocation failed, and the response was not read when the invocation
\* failed.
C10_FailFast ==
    \A c \in Calls :
        /\ outcome[c] # Pending => Returned(c)
        /\ Returned(c) =>
              /\ IsPrefix(steps[c], StepOrder)
              /\ Len(steps[c]) > 0
              /\ steps[c][Len(steps[c])] \in StepsReturning(outcome[c].kind)
        /\ outcome[c].kind \in {DirErrorKind(op), "WriteScript", "WriteRequest"} =>
              host[c].state = "none"
        /\ outcome[c].kind = "QRenderDocPython" =>
              (host[c].state = "none" /\ ~Executed(c, "read_response"))

C10_Witness ==
    /\ \E c \in Calls :
          Returned(c) /\ outcome[c].kind = "WriteRequest" /\ host[c].state = "none"
    /\ \E c \in Calls :
          Returned(c) /\ outcome[c].kind = "QRenderDocPython"

\* How many times step s occurs among the steps call c has executed.
Count(c, s) == Cardinality({i \in 1..Len(steps[c]) : steps[c][i] = s})

\* C11: whatever its outcome, a call allocates a run directory at most
\* once, writes its request artifact at most once and launches the host
\* process at most once; every run directory beyond those that existed
\* before belongs to one call.
C11_NoRetry ==
    /\ \A c \in Calls :
          /\ Count(c, "create_qrenderdoc_run_dir") <= 1
          /\ Count(c, "write_request") <= 1
          /\ Count(c, "run_qrenderdoc_python") <= 1
          /\ host[c].state # "none" => Count(c, "run_qrenderdoc_python") = 1
          /\ run_dir[c] # 0 => Count(c, "create_qrenderdoc_run_dir") = 1
    /\ Cardinality(dirs) - Cardinality({c \in Calls : run_dir[c] # 0}) \in {0, NumStale}

C11_Witness ==
    /\ \E c \in Calls : Returned(c) /\ outcome[c].kind = "Ok"
    /\ \E c \in Calls :
          /\ Returned(c) /\ outcome[c].kind = "ReadResponse"
          /\ Count(c, "run_qrenderdoc_python") = 1 /\ Count(c, "write_request") = 1

\* The step at which a returned call stopped.
LastStep(c) == steps[c][Len(steps[c])]

\* C12 as stated: a returned call carries the kind of the step it stopped
\* at, a failed request serialization or request write the request-write
\* kind, and the envelope-parse kind only when the response bytes were read
\* and did not decode.
C12_ErrorKinds ==
    \A c \in Calls :
        Returned(c) =>
            LET k == outcome[c].kind
                bytes == ReadFile(response_path(c))
            IN /\ LastStep(c) \in {"create_dir_all", "create_qrenderdoc_run_dir"} =>
                     k = DirErrorKind(op)
               /\ LastStep(c) = "write_script_file" => k = "WriteScript"
               /\ LastStep(c) = "write_request" => k = "WriteRequest"
               /\ LastStep(c) = "run_qrenderdoc_python" => k = "QRenderDocPython"
               /\ (LastStep(c) = "read_response" /\ bytes = NoFile) => k = "ReadResponse"
               /\ (LastStep(c) = "read_response" /\ bytes = Garbage) =>
                     k \in {"ReadResponse", "ParseJson"}
               /\ k = "ParseJson" =>
                     (LastStep(c) = "read_response" /\ ~from_slice(bytes).parsed)

\* Call c's host process exited with a non-zero status, having written a
\* well-formed envelope.
NonZeroExitWithEnvelope(c) ==
    /\ Returned(c)
    /\ host[c].state = "exited" /\ host[c].status # 0
    /\ host[c].wrote.kind = "envelope"

Materializes(c) ==
    /\ pc[c] = "write_script_file_body"
    /\ pc'[c] = NextStep("write_script_file")

\* C14: right after each successful write_script_file the script file holds
\* exactly the script text, whatever it held before (nothing, an older
\* version, a manual edit) and however many materializations preceded; no
\* call gets past materialization without having written the file.
C14_IdempotentMaterialization ==
    /\ [][\A c \in Calls : Materializes(c) => script_file' = "text"]_vars
    /\ [](\A c \in Calls :
            pc[c] = NextStep("write_script_file") =>
                (Executed(c, "write_script_file") /\ script_file \in {"text", "truncated"}))

C14_Witness ==
    /\ \A c \in Calls : pc[c] = NextStep("write_script_file")
    /\ script_file = "text"

FilesIn(d) == {n \in FileNames : fs[d][n] # NoFile}

\* Call c's host script wrote a well-formed ok = true envelope with a
\* result, and the call read it.
SucceededEndToEnd(c) ==
    /\ Decoded(c)
    /\ host[c].state = "exited"
    /\ host[c].wrote.kind = "envelope"
    /\ host[c].wrote.ok = "true" /\ host[c].wrote.result.shape = "object"

\* C16: a call whose host script wrote an ok = true envelope with a result
\* (and nothing else) returns Ok with that result; one run directory was
\* created for it, and that directory holds exactly the request and the
\* response artifact.
C16_EndToEnd ==
    \A c \in Calls :
        SucceededEndToEnd(c) =>
            /\ outcome[c] = Ok(host[c].wrote.result.v)
            /\ outcome[c].result = Payload(WrittenRequest(c).body)
            /\ run_dir[c] \in dirs
            /\ Count(c, "create_qrenderdoc_run_dir") = 1
            /\ \A d \in Calls : (d # c) => run_dir[d] # run_dir[c]
            /\ FilesIn(run_dir[c]) = {RequestName(op), ResponseName(op)}
            /\ fs[run_dir[c]][RequestName(op)] = WrittenRequest(c)
            /\ fs[run_dir[c]][ResponseName(op)] = host[c].wrote

C16_Witness ==
    /\ \E c \in Calls : SucceededEndToEnd(c) /\ outcome[c].kind = "Ok"
    /\ \A c \in Calls : Returned(c)

\* Call c's std::fs::write of the request artifact has returned Ok.
RequestWritten(c) ==
    /\ Executed(c, "write_request")
    /\ ~(Returned(c) /\ LastStep(c) = "write_request")

\* C17: a call writes its request artifact once, before its host process
\* starts; from then on, and still when the call has returned, the artifact
\* holds exactly what was written.
C17_RequestWrittenOnce ==
    \A c \in Calls :
        /\ Count(c, "write_request") <= 1
        /\ host[c].state # "none" => RequestWritten(c)
        /\ RequestWritten(c) => ReadFile(request_path(c)) = WrittenRequest(c)
        /\ (run_dir[c] # 0 /\ ~RequestWritten(c)) => ReadFile(request_path(c)) = NoFile

C17_Witness ==
    /\ \A c \in Calls : Returned(c) /\ RequestWritten(c)
    /\ \E c \in Calls : outcome[c].kind = "Ok"
    /\ \E c \in Calls : outcome[c].kind = "ReadResponse"

\* File n of directory d is deleted in this step.
Deleted(d, n) == fs[d][n] # NoFile /\ fs'[d][n] = NoFile

\* C18: no step removes a run directory, so the run directory of a call
\* exists from its allocation on, on every exit path; the only file a call
\* ever deletes is the response artifact of its own run directory, in its
\* remove_if_exists step before the host is invoked.
C18_NeverDeletesRunDir ==
    /\ [](\A c \in Calls : run_dir[c] # 0 => run_dir[c] \in dirs)
    /\ [][dirs \subseteq dirs']_vars
    /\ [][\A d \in DirIds, n \in FileNames :
            Deleted(d, n) =>
                \E c \in Calls :
                    /\ pc[c] = "remove_if_exists" /\ pc'[c] # pc[c]
                    /\ host[c].state = "none"
                    /\ d = run_dir[c] /\ n = ResponseName(op)]_vars

C18_Witness ==
    /\ \E c \in Calls : Returned(c) /\ outcome[c].kind = "Ok" /\ run_dir[c] \in dirs
    /\ \E c \in Calls :
          /\ Returned(c) /\ run_dir[c] \in dirs
          /\ outcome[c].kind \in {"WriteRequest", "QRenderDocPython", "ReadResponse",
                                   "ParseJson", "ScriptError"}
    /\ \E t \in StaleTokens : t \in dirs /\ fs[t][ResponseName(op)] = StaleResponse

\* C19: the host process of a call runs in the run directory allocated to
\* this call, on the script path the call materialized, with no extra
\* arguments; the request it works on is the one it read from the request
\* artifact of that run directory.
C19_HostInvocation ==
    \A c \in Calls :
        host[c].state # "none" =>
            /\ run_dir[c] # 0 /\ run_dir[c] \in dirs
            /\ host[c].wd = run_dir[c]
            /\ \A d \in Calls : (d # c) => host[c].wd # run_dir[d]
            /\ Executed(c, "write_script_file")
            /\ host[c].script = <<0, ScriptName(op)>>
            /\ host[c].args = <<>>
            /\ host[c].state = "running" => host[c].req = NoFile
            /\ host[c].req # NoFile =>
                  /\ host[c].req = fs[run_dir[c]][RequestName(op)]
                  /\ host[c].req = WrittenRequest(c)

C19_Witness ==
    /\ \A c \in Calls : host[c].state = "exited" /\ host[c].req = WrittenRequest(c)
    /\ \E c, d \in Calls : host[c].wd # host[d].wd

\* C20: resolve_api calls RENDERDOC_GetAPI with the versions of preferred in
\* order, 1.6.0 first and 1.0.0 last, each older than the one before; it
\* returns the first, hence the highest, version answered with 1 and a
\* non-null pointer, GetApiFailedAllVersions exactly when no version of the
\* list is so answered, and MissingGetApi, with no version tried, when the
\* function pointer is absent.
C20_ResolveApi ==
    /\ preferred[1] = <<1, 6, 0>> /\ preferred[Len(preferred)] = <<1, 0, 0>>
    /\ \A i, j \in 1..Len(preferred) :
          i < j => VersionLess(preferred[j], preferred[i])
    /\ IsPrefix(api.tried, preferred)
    /\ api.result.kind = "Ok" =>
          /\ api.result.version \in api.lib.accepts
          /\ \A w \in api.lib.accepts \cap Versions :
                ~VersionLess(api.result.version, w)
          /\ api.tried[Len(api.tried)] = api.result.version
          /\ \A i \in 1..(Len(api.tried) - 1) : api.tried[i] \notin api.lib.accepts
    /\ (api.pc = "done" /\ api.present) =>
          /\ api.result.kind \in {"Ok", "GetApiFailedAllVersions"}
          /\ api.result.kind = "GetApiFailedAllVersions" <=>
                (api.lib.accepts \cap Versions = {})
          /\ api.result.kind = "GetApiFailedAllVersions" => api.tried = preferred
    /\ api.result.kind = "MissingGetApi" <=> (api.pc = "done" /\ ~api.present)
    /\ api.result.kind = "MissingGetApi" => api.tried = <<>>

C20_Witness ==
    /\ api.pc = "done" /\ api.result.kind = "Ok"
    /\ Len(api.tried) > 1
    /\ api.lib.refusal = "one_null"
    /\ Cardinality(api.lib.accepts) > 1


----------------------------------------------------------------------------
\* Toolchain discovery as a state machine: detect() consults its sources in
\* order; from_root_dir() is also a public entry point of its own.

InitDetect ==
    /\ FacadeAtRest
    /\ api = ApiIdle
    /\ convert = ConvertIdle
    /\ tool = ToolIdle
    /\ script = ScriptIdle
    /\ \E platform \in Platforms :
       \E a \in DirStates(platform), b \in DirStates(platform),
          d \in DefaultDirStates(platform) :
          LET files == [x \in InstallDirs |->
                           IF x = DirA THEN a ELSE IF x = DirB THEN b ELSE d]
              machine == [InstallIdle EXCEPT !.platform = platform, !.files = files]
          IN \/ \E env_dir \in {None, Some(DirA), Some(DirB)},
                   program_files \in {None, Some(ProgramFilesDir)},
                   path_env \in PathEnvs :
                   install = [machine EXCEPT !.pc = "detect", !.entry = "detect",
                                             !.env_dir = env_dir,
                                             !.program_files = program_files,
                                             !.path_env = path_env]
             \/ \E root_dir \in InstallDirs :
                   install = [machine EXCEPT !.pc = "from_root_dir",
                                             !.entry = "from_root_dir",
                                             !.arg = root_dir]

\* if let Some(candidate) = env::var_os("RENDERDOG_RENDERDOC_DIR") ...
DetectOverride ==
    /\ install.pc = "detect"
    /\ LET r == detect_override(install.platform, install.files, install.env_dir)
           seen == Append(install.consulted, "RENDERDOG_RENDERDOC_DIR")
       IN install' =
            IF r # None
            THEN [install EXCEPT !.pc = "done", !.consulted = seen, !.result = r[1]]
            ELSE [install EXCEPT !.consulted = seen,
                                 !.pc = IF install.platform = "windows"
                                        THEN "default" ELSE "path"]
    /\ UNCHANGED <<script, tool, convert, api, facade>>

\* #[cfg(windows)] { ... ProgramFiles ... }
DetectDefault ==
    /\ install.pc = "default"
    /\ LET r == detect_default(install.platform, install.files, install.program_files)
           seen == Append(install.consulted, "ProgramFiles")
       IN install' =
            IF r # None
            THEN [install EXCEPT !.pc = "done", !.consulted = seen, !.result = r[1]]
            ELSE [install EXCEPT !.pc = "path", !.consulted = seen]
    /\ UNCHANGED <<script, tool, convert, api, facade>>

\* if let Some(install) = Self::from_path_env() ... Err(NotFound)
DetectPath ==
    /\ install.pc = "path"
    /\ LET r == from_path_env(install.platform, install.files, install.path_env)
           seen == Append(install.consulted, "PATH")
       IN install' = [install EXCEPT !.pc = "done", !.consulted = seen,
                                     !.result = IF r # None THEN r[1] ELSE NotFound]
    /\ UNCHANGED <<script, tool, convert, api, facade>>

\* A direct call of RenderDocInstallation::from_root_dir(arg).
FromRootDir ==
    /\ install.pc = "from_root_dir"
    /\ install' = [install EXCEPT
                      !.pc = "done",
                      !.result = from_root_dir(install.platform, install.files,
                                               install.arg)]
    /\ UNCHANGED <<script, tool, convert, api, facade>>

NextDetect == DetectOverride \/ DetectDefault \/ DetectPath \/ FromRootDir

SpecDetect == InitDetect /\ [][NextDetect]_vars

Detected == install.entry = "detect" /\ install.pc = "done"

\* C21: when RENDERDOG_RENDERDOC_DIR is set, detect returns exactly what
\* from_root_dir returns for that directory and consults nothing else; PATH
\* is searched only when the variable is unset; NotFound is returned only
\* when the variable is unset and the default install path (on Windows) and
\* the PATH search both fail.
C21_OverrideWins ==
    Detected =>
        /\ install.env_dir # None =>
              /\ install.result = from_root_dir(install.platform, install.files,
                                                install.env_dir[1])
              /\ install.consulted = <<"RENDERDOG_RENDERDOC_DIR">>
        /\ (\E i \in 1..Len(install.consulted) : install.consulted[i] = "PATH")
              => install.env_dir = None
        /\ install.result.kind = "NotFound" =>
              /\ install.env_dir = None
              /\ detect_default(install.platform, install.files,
                                install.program_files) = None
              /\ from_path_env(install.platform, install.files,
                               install.path_env) = None

\* The variable names a directory that is no installation while both the
\* default install path and PATH hold one: detect reports MissingComponent.
C21_Witness ==
    /\ Detected
    /\ install.env_dir # None
    /\ install.result.kind = "MissingComponent"
    /\ install.platform = "windows"
    /\ detect_default(install.platform, install.files, install.program_files) # None
    /\ from_path_env(install.platform, install.files, install.path_env) # None

FilesUnder(root_dir, name) ==
    install.files[root_dir].entries[name] = "file"

\* C30: from_root_dir returns Ok exactly when both executables exist as
\* files directly under the root; otherwise MissingComponent names the
\* missing executable, qrenderdoc when both are missing; on Ok the two
\* executable paths are the root joined with the names and root_dir is the
\* given root.
C30_FromRootDir ==
    (install.entry = "from_root_dir" /\ install.pc = "done") =>
        LET root == install.arg
            q == qrenderdoc_exe_name(install.platform)
            c == renderdoccmd_exe_name(install.platform)
            r == install.result
        IN /\ r.kind \in {"Ok", "MissingComponent"}
           /\ r.kind = "Ok" <=> (FilesUnder(root, q) /\ FilesUnder(root, c))
           /\ r.kind = "Ok" =>
                 /\ r.root_dir = root
                 /\ r.qrenderdoc_exe = root \o <<q>>
                 /\ r.renderdoccmd_exe = root \o <<c>>
           /\ r.kind = "MissingComponent" =>
                 /\ r.root_dir = root
                 /\ r.missing = IF ~FilesUnder(root, q) THEN q ELSE c
                 /\ ~FilesUnder(root, r.missing)

\* Both executables are missing and the error names qrenderdoc.
C30_Witness ==
    /\ install.entry = "from_root_dir"
    /\ install.pc = "done"
    /\ install.files[install.arg].exists
    /\ ~FilesUnder(install.arg, qrenderdoc_exe_name(install.platform))
    /\ ~FilesUnder(install.arg, renderdoccmd_exe_name(install.platform))
    /\ install.result = MissingComponent(install.arg,
                                         qrenderdoc_exe_name(install.platform))


----------------------------------------------------------------------------
\* The settings conversions as a state machine: a caller converts
\* NumConversions values of one of the two enums, one after the other.

InitConvert ==
    /\ FacadeAtRest
    /\ api = ApiIdle
    /\ install = InstallIdle
    /\ tool = ToolIdle
    /\ script = ScriptIdle
    /\ \/ \E values \in [1..NumConversions -> CaptureOption] :
             convert = [ConvertIdle EXCEPT !.pc = "convert",
                                           !.type = "CaptureOption",
                                           !.values = values]
       \/ \E values \in [1..NumConversions -> InputButton] :
             convert = [ConvertIdle EXCEPT !.pc = "convert",
                                           !.type = "InputButton",
                                           !.values = values]

ConvertStep(type, from(_)) ==
    /\ convert.pc = "convert"
    /\ convert.type = type
    /\ LET i == Len(convert.converted) + 1
       IN convert' = [convert EXCEPT
                         !.converted = Append(@, from(convert.values[i])),
                         !.pc = IF i = NumConversions THEN "done" ELSE "convert"]
    /\ UNCHANGED <<script, tool, install, api, facade>>

\* let sys_opt: sys::RENDERDOC_CaptureOption = value.into();
ConvertCaptureOption == ConvertStep("CaptureOption", from_CaptureOption)

\* let sys_btn: sys::RENDERDOC_InputButton = value.into();
ConvertInputButton == ConvertStep("InputButton", from_InputButton)

NextConvert == ConvertCaptureOption \/ ConvertInputButton

SpecConvert == InitConvert /\ [][NextConvert]_vars

\* The Rust spelling of a constant's name: a key constant named by a digit
\* carries the word Key (an identifier cannot start with a digit), and the
\* acronym API is written in camel case.
VariantSpelling(suffix) ==
    IF suffix \in {"0", "1", "2", "3", "4", "5", "6", "7", "8", "9"}
    THEN "Key" \o suffix
    ELSE IF suffix = "APIValidation" THEN "ApiValidation" ELSE suffix

EnumPrefix(type) ==
    IF type = "CaptureOption" THEN "eRENDERDOC_Option_" ELSE "eRENDERDOC_Key_"

\* C22: every variant of CaptureOption and InputButton converts to the sys
\* constant of its own name (total), and two conversions yield the same
\* constant only for the same variant (injective).
C22_Conversions ==
    \A i, j \in 1..Len(convert.converted) :
        LET out == convert.converted[i]
        IN /\ out # Unmatched
           /\ out.prefix = EnumPrefix(convert.type)
           /\ VariantSpelling(out.suffix) = convert.values[i]
           /\ out = convert.converted[j] => convert.values[i] = convert.values[j]

\* ApiValidation and F12 have been converted, each next to another variant.
C22_Witness ==
    /\ convert.pc = "done"
    /\ convert.values[1] # convert.values[2]
    /\ \/ /\ convert.values[1] = "ApiValidation"
          /\ convert.converted[1] = sys_constant("eRENDERDOC_Option_", "APIValidation")
       \/ /\ convert.values[1] = "F12"
          /\ convert.values[2] = "F11"
          /\ convert.converted[1] = sys_constant("eRENDERDOC_Key_", "F12")

----------------------------------------------------------------------------
\* The one-shot tools as a state machine: every stage of a tool is one step,
\* and a sub-call either fails or returns one of the values it can return.

InitTool ==
    /\ FacadeAtRest
    /\ api = ApiIdle
    /\ install = InstallIdle
    /\ convert = ConvertIdle
    /\ script = ScriptIdle
    /\ \E name \in Tools, req \in ToolRequests :
          tool = IF name = "export_bundle_jsonl"
                 THEN [ToolIdle EXCEPT !.name = name, !.req = req,
                                       !.pc = "export_bundle_jsonl",
                                       !.capture_path = req.capture_path,
                                       !.output_dir = req.output_dir]
                 ELSE [ToolIdle EXCEPT !.name = name, !.req = req, !.pc = "detect"]

NoArgs(fn) == SubCall(fn, 0, <<>>, <<>>, 0)

\* `let x = call(..).map_err(|e| format!("<message>: {e}"))?;`: the call is
\* made; the tool goes on as `success` or returns the error.
Stage(at, call, success, message) ==
    /\ tool.pc = at
    /\ \/ tool' = [success EXCEPT !.calls = Append(tool.calls, call)]
       \/ tool' = [tool EXCEPT !.pc = "done", !.calls = Append(@, call),
                               !.result = ToolErr(message)]
    /\ UNCHANGED <<script, convert, install, api, facade>>

\* let install = RenderDocInstallation::detect().map_err(..)?;
ToolDetect ==
    Stage("detect", NoArgs("detect"), [tool EXCEPT !.pc = "resolve_base_cwd"],
          "detect installation failed")

\* let cwd = resolve_base_cwd(req.cwd.clone())?;
ToolResolveBaseCwd ==
    Stage("resolve_base_cwd", NoArgs("resolve_base_cwd"),
          [tool EXCEPT !.pc = IF tool.name \in CaptureTools
                              THEN "create_artifacts_dir" ELSE "find_events"],
          "get cwd failed")

\* std::fs::create_dir_all(&artifacts_dir).map_err(..)?;
ToolCreateArtifactsDir ==
    Stage("create_artifacts_dir", NoArgs("create_artifacts_dir"),
          [tool EXCEPT !.pc = "launch_capture"], "create artifacts_dir failed")

\* let launch_res = install.launch_capture(&launch_req).map_err(..)?;
ToolLaunchCapture ==
    \E target_ident \in TargetIdents :
        Stage("launch_capture", NoArgs("launch_capture"),
              [tool EXCEPT !.pc = "trigger_capture", !.target_ident = target_ident],
              "launch capture failed")

\* The trigger stage asking for a fixed target instead of the launched one.
TriggerTarget_Fixed(t) == 7

\* TriggerCaptureRequest { target_ident: launch_res.target_ident, .. }
TriggerTarget(t) == t.target_ident

\* let capture_res = install.trigger_capture_via_target_control(&cwd, ..)?;
ToolTriggerCapture ==
    \E capture_path \in CapturePaths :
        Stage("trigger_capture",
              SubCall("trigger_capture", TriggerTarget(tool), <<>>, <<>>, 0),
              [tool EXCEPT !.pc = "create_output_dir", !.capture_path = capture_path],
              "trigger capture failed")

\* let output_dir = resolve_path_from_base(&cwd, &p); create_dir_all(&output_dir)?;
ToolCreateOutputDir ==
    LET output_dir == join(Cwd, tool.req.output_dir)
        next == CASE tool.name = "capture_and_export_actions_jsonl"
                       -> "export_actions_jsonl"
                  [] tool.name = "capture_and_export_bindings_index_jsonl"
                       -> "export_bindings_index_jsonl"
                  [] tool.name = "capture_and_export_bundle_jsonl"
                       -> "export_bundle_jsonl"
                  [] OTHER -> "replay_save_outputs_png"
    IN Stage("create_output_dir", SubCall("create_output_dir", 0, <<>>, output_dir, 0),
             [tool EXCEPT !.pc = next, !.output_dir = output_dir],
             "create output_dir failed")

\* let export_res = install.export_actions_jsonl(&cwd, &ExportActionsRequest {
\*     capture_path: capture_res.capture_path.clone(), output_dir, .. })?; Ok(..)
ToolExportActions ==
    Stage("export_actions_jsonl",
          SubCall("export_actions_jsonl", 0, tool.capture_path, tool.output_dir, 0),
          [tool EXCEPT !.pc = "done", !.result = ToolOk(0)],
          "export actions failed")

\* let export_res = install.export_bindings_index_jsonl(&cwd, ..)?; Ok(..)
ToolExportBindings ==
    Stage("export_bindings_index_jsonl",
          SubCall("export_bindings_index_jsonl", 0, tool.capture_path,
                  tool.output_dir, 0),
          [tool EXCEPT !.pc = "done", !.result = ToolOk(0)],
          "export bindings index failed")

\* export_bundle_jsonl returning to its caller: the bundle tool maps an error
\* to "export bundle failed" and goes on to the thumbnail after a success.
BundleReturn(t, bundle) ==
    IF t.name = "export_bundle_jsonl"
    THEN [t EXCEPT !.bundle = bundle, !.pc = "done",
                   !.result = IF bundle.kind = "Ok" THEN ToolOk(0)
                              ELSE ToolErr(bundle.error)]
    ELSE IF bundle.kind = "Ok"
    THEN [t EXCEPT !.bundle = bundle, !.pc = "save_thumbnail"]
    ELSE [t EXCEPT !.bundle = bundle, !.pc = "done",
                   !.result = ToolErr("export bundle failed")]

\* export_bundle_jsonl running the bindings export although the actions
\* export failed.
AfterActionsError_Continue(t) ==
    [t EXCEPT !.pc = "export_bundle_jsonl.bindings",
              !.bundle = ExportBundleError("Actions")]

\* let actions = self.export_actions_jsonl(..)?: Err(ExportBundleError::Actions)
AfterActionsError(t) == BundleReturn(t, ExportBundleError("Actions"))

\* export_bundle_jsonl: resolve both paths, then the actions export.
BundleExportActions ==
    /\ tool.pc = "export_bundle_jsonl"
    /\ LET capture_path == resolve_path_string_from_cwd(Cwd, tool.capture_path)
           output_dir == resolve_path_string_from_cwd(Cwd, tool.output_dir)
           called == [tool EXCEPT !.calls = Append(Append(@,
                         SubCall("export_bundle_jsonl", 0, tool.capture_path,
                                 tool.output_dir, 0)),
                         SubCall("export_actions_jsonl", 0, capture_path, output_dir, 0))]
       IN \/ \E v \in ExportVariants :
                tool' = [called EXCEPT
                            !.pc = "export_bundle_jsonl.bindings",
                            !.actions = ExportActionsResponse(capture_path, output_dir, v)]
          \/ tool' = AfterActionsError(called)
    /\ UNCHANGED <<script, convert, install, api, facade>>

\* export_bundle_jsonl: the bindings-index export and the response.
BundleExportBindings ==
    /\ tool.pc = "export_bundle_jsonl.bindings"
    /\ LET capture_path == resolve_path_string_from_cwd(Cwd, tool.capture_path)
           output_dir == resolve_path_string_from_cwd(Cwd, tool.output_dir)
           called == [tool EXCEPT !.calls = Append(@,
                         SubCall("export_bindings_index_jsonl", 0, capture_path,
                                 output_dir, 0))]
       IN \/ \E v \in ExportVariants :
                LET bindings == ExportBindingsIndexResponse(capture_path, output_dir, v)
                IN tool' = BundleReturn(
                              [called EXCEPT !.bindings = bindings],
                              ExportBundleResponse(capture_path, tool.actions, bindings))
          \/ tool' = BundleReturn(called, ExportBundleError("Bindings"))
    /\ UNCHANGED <<script, convert, install, api, facade>>

\* if req.save_thumbnail { create_dir_all(parent)?; install.save_thumbnail(..)?; }
ToolSaveThumbnail ==
    /\ tool.pc = "save_thumbnail"
    /\ IF tool.req.save_thumbnail
       THEN LET made == [tool EXCEPT !.calls = Append(@, NoArgs("create_thumbnail_dir"))]
                saved == [made EXCEPT !.calls = Append(@,
                             SubCall("save_thumbnail", 0, tool.bundle.capture_path,
                                     <<>>, 0))]
            IN \/ tool' = [made EXCEPT !.pc = "done",
                              !.result = ToolErr("create thumbnail output dir failed")]
               \/ tool' = [saved EXCEPT !.pc = "done",
                              !.result = ToolErr("save thumbnail failed")]
               \/ tool' = [saved EXCEPT !.pc = "open_capture_ui"]
       ELSE tool' = [tool EXCEPT !.pc = "open_capture_ui"]
    /\ UNCHANGED <<script, convert, install, api, facade>>

\* if req.open_capture_ui { install.open_capture_in_ui(..)?; } Ok(..)
ToolOpenCaptureUi ==
    /\ tool.pc = "open_capture_ui"
    /\ IF tool.req.open_capture_ui
       THEN LET opened == [tool EXCEPT !.calls = Append(@,
                              SubCall("open_capture_in_ui", 0,
                                      tool.bundle.capture_path, <<>>, 0))]
            IN \/ tool' = [opened EXCEPT !.pc = "done",
                              !.result = ToolErr("open capture UI failed")]
               \/ tool' = [opened EXCEPT !.pc = "done", !.result = ToolOk(0)]
       ELSE tool' = [tool EXCEPT !.pc = "done", !.result = ToolOk(0)]
    /\ UNCHANGED <<script, convert, install, api, facade>>

\* let find = install.find_events(&cwd, ..).map_err(..)?;
ToolFindEvents ==
    \E find \in FindEventsResponses :
        Stage("find_events",
              SubCall("find_events", 0, join(Cwd, tool.req.capture_path), <<>>, 0),
              [tool EXCEPT !.pc = "select", !.find = find],
              "find events failed")

\* if find.total_matches == 0 { return Err(..) }
\* let selected_event_id = match req.selection { .. };
ToolSelect ==
    /\ tool.pc = "select"
    /\ LET chosen == selected_event_id(FindEventSelection(tool.req.selection),
                                       tool.find)
       IN tool' =
            IF tool.find.total_matches = 0
            THEN [tool EXCEPT !.pc = "done",
                     !.result = ToolErr("no matching events found; refine filters")]
            ELSE IF chosen = None
            THEN [tool EXCEPT !.pc = "done",
                     !.result = ToolErr("no matching events found")]
            ELSE [tool EXCEPT !.pc = "create_output_dir", !.selected = chosen[1]]
    /\ UNCHANGED <<script, convert, install, api, facade>>

\* let replay = install.replay_save_outputs_png(&cwd, &ReplaySaveOutputsPngRequest {
\*     event_id: Some(selected_event_id), .. })?; Ok(.. selected_event_id ..)
ToolReplay ==
    Stage("replay_save_outputs_png",
          SubCall("replay_save_outputs_png", 0, join(Cwd, tool.req.capture_path),
                  tool.output_dir, tool.selected),
          [tool EXCEPT !.pc = "done", !.result = ToolOk(tool.selected)],
          "replay save outputs failed")

NextTool ==
    \/ ToolDetect \/ ToolResolveBaseCwd \/ ToolCreateArtifactsDir
    \/ ToolLaunchCapture \/ ToolTriggerCapture \/ ToolCreateOutputDir
    \/ ToolExportActions \/ ToolExportBindings
    \/ BundleExportActions \/ BundleExportBindings
    \/ ToolSaveThumbnail \/ ToolOpenCaptureUi
    \/ ToolFindEvents \/ ToolSelect \/ ToolReplay

SpecTool == InitTool /\ [][NextTool]_vars

\* Positions in the tool's call log of the calls of fn.
CallsOf(fn) == {i \in 1..Len(tool.calls) : tool.calls[i].fn = fn}
ExportFn ==
    CASE tool.name = "capture_and_export_actions_jsonl" -> "export_actions_jsonl"
      [] tool.name = "capture_and_export_bindings_index_jsonl"
           -> "export_bindings_index_jsonl"
      [] OTHER -> "export_bundle_jsonl"
AfterExportFns == {"create_thumbnail_dir", "save_thumbnail", "open_capture_in_ui"}

\* C23: a capture-and-export tool launches, then triggers, then exports,
\* each at most once; the trigger is asked for the target the launch
\* returned and the export for the capture the trigger returned; after a
\* failed stage no later stage is called; the bundle tool's thumbnail and
\* UI steps are called only after a successful export.
C23_StageOrder ==
    tool.name \in CaptureTools =>
        LET launch == CallsOf("launch_capture")
            trigger == CallsOf("trigger_capture")
            export == CallsOf(ExportFn)
            after == UNION {CallsOf(fn) : fn \in AfterExportFns}
        IN /\ Cardinality(launch) <= 1
           /\ Cardinality(trigger) <= 1
           /\ Cardinality(export) <= 1
           /\ \A t \in trigger :
                 /\ \E l \in launch : l < t
                 /\ tool.target_ident \in TargetIdents
                 /\ tool.calls[t].target_ident = tool.target_ident
           /\ \A e \in export :
                 /\ \E t \in trigger : t < e
                 /\ tool.capture_path \in CapturePaths
                 /\ tool.calls[e].capture_path = tool.capture_path
           /\ \A a \in after :
                 /\ tool.name = "capture_and_export_bundle_jsonl"
                 /\ tool.bundle.kind = "Ok"
                 /\ \E e \in export : e < a
           /\ tool.result.kind = "Err" =>
                 /\ tool.pc = "done"
                 /\ tool.result.error = "launch capture failed"
                       => launch = {Len(tool.calls)} /\ trigger = {} /\ export = {}
                 /\ tool.result.error = "trigger capture failed"
                       => trigger = {Len(tool.calls)} /\ export = {}
                 /\ tool.result.error \in {"export actions failed",
                                           "export bindings index failed",
                                           "export bundle failed"}
                       => export # {} /\ after = {}
                 /\ tool.result.error \in {"detect installation failed",
                                           "get cwd failed",
                                           "create artifacts_dir failed"}
                       => launch = {} /\ trigger = {} /\ export = {}
                 /\ tool.result.error = "create output_dir failed" => export = {}

\* The bundle tool ran to the end for the second target, with thumbnail
\* and UI step.
C23_Witness ==
    /\ tool.name = "capture_and_export_bundle_jsonl"
    /\ tool.result.kind = "Ok"
    /\ tool.target_ident = 9
    /\ CallsOf("save_thumbnail") # {}
    /\ CallsOf("open_capture_in_ui") # {}

BundleTools == {"export_bundle_jsonl", "capture_and_export_bundle_jsonl"}

\* C28: export_bundle_jsonl calls the actions export and then the bindings
\* export, both with the capture_path and output_dir resolved against cwd;
\* a failed actions export yields ExportBundleError::Actions and no bindings
\* export; a failed bindings export yields ExportBundleError::Bindings; the
\* response on success carries the two sub-calls' counters and paths and the
\* resolved capture_path.
C28_ExportBundle ==
    tool.name \in BundleTools =>
        LET bundle == CallsOf("export_bundle_jsonl")
            actions == CallsOf("export_actions_jsonl")
            bindings == CallsOf("export_bindings_index_jsonl")
            capture_path == IF is_absolute(tool.capture_path) THEN tool.capture_path
                            ELSE Cwd \o tool.capture_path
            output_dir == IF is_absolute(tool.output_dir) THEN tool.output_dir
                          ELSE Cwd \o tool.output_dir
        IN /\ Cardinality(actions) <= 1 /\ Cardinality(bindings) <= 1
           /\ \A i \in actions \cup bindings :
                 /\ tool.calls[i].capture_path = capture_path
                 /\ tool.calls[i].output_dir = output_dir
                 /\ \E b \in bundle : b < i
           /\ \A b \in bindings :
                 /\ \E a \in actions : a < b
                 /\ tool.actions \in {ExportActionsResponse(capture_path, output_dir, v) :
                                         v \in ExportVariants}
           /\ tool.bundle.kind = "Err" =>
                 /\ tool.bundle.error \in {"Actions", "Bindings"}
                 /\ tool.bundle.error = "Actions"
                       => actions = {Len(tool.calls)} /\ bindings = {}
                 /\ tool.bundle.error = "Bindings"
                       => bindings = {Len(tool.calls)} /\ actions # {}
           /\ tool.bundle.kind = "Ok" =>
                 /\ actions # {} /\ bindings # {}
                 /\ tool.bundle.capture_path = capture_path
                 /\ tool.bundle.actions_jsonl_path = tool.actions.actions_jsonl_path
                 /\ tool.bundle.actions_summary_json_path = tool.actions.summary_json_path
                 /\ tool.bundle.total_actions = tool.actions.total_actions
                 /\ tool.bundle.drawcall_actions = tool.actions.drawcall_actions
                 /\ tool.bundle.bindings_jsonl_path = tool.bindings.bindings_jsonl_path
                 /\ tool.bundle.bindings_summary_json_path
                       = tool.bindings.summary_json_path
                 /\ tool.bundle.total_drawcalls = tool.bindings.total_drawcalls

\* A direct call with a relative capture_path succeeded although the two
\* sub-calls reported different capture paths and counters.
C28_Witness ==
    /\ tool.name = "export_bundle_jsonl"
    /\ tool.req.capture_path = RelPath
    /\ tool.bundle.kind = "Ok"
    /\ tool.actions.capture_path # tool.bindings.capture_path
    /\ tool.bundle.total_actions = 8
    /\ tool.bundle.total_drawcalls = 2

\* C25: find_events_and_save_outputs_png never replays after a failed
\* find_events or when total_matches is 0 (it returns an error); the event it
\* replays is first_event_id, or the first listed match when that is absent,
\* for selection first, and last_event_id, or the last listed match, for
\* selection last or omitted; the response's selected_event_id is the
\* event_id given to the replay.
C25_Selection ==
    tool.name = "find_events_and_save_outputs_png" =>
        LET find == CallsOf("find_events")
            replay == CallsOf("replay_save_outputs_png")
            f == tool.find
            wanted == IF tool.req.selection = "first"
                      THEN IF f.first_event_id # <<>> THEN f.first_event_id[1]
                           ELSE f.matches[1]
                      ELSE IF f.last_event_id # <<>> THEN f.last_event_id[1]
                           ELSE f.matches[Len(f.matches)]
        IN /\ Cardinality(replay) <= 1
           /\ tool.result.error = "find events failed" => replay = {}
           /\ (tool.pc \notin {"detect", "resolve_base_cwd", "find_events", "select"}
               /\ tool.result.error # "find events failed"
               /\ f.total_matches = 0)
                 => tool.result.kind = "Err" /\ replay = {}
           /\ \A r \in replay :
                 /\ \E i \in find : i < r
                 /\ f.total_matches # 0
                 /\ tool.calls[r].event_id = wanted
           /\ tool.result.kind = "Ok" =>
                 \E r \in replay :
                     tool.result.selected_event_id = tool.calls[r].event_id

\* The selection was omitted, find_events reported no last_event_id, and the
\* last listed match was replayed.
C25_Witness ==
    /\ tool.name = "find_events_and_save_outputs_png"
    /\ tool.req.selection = "omitted"
    /\ tool.find.last_event_id = None
    /\ tool.find.first_event_id # None
    /\ tool.find.matches = <<11, 29>>
    /\ tool.result = ToolOk(29)

----------------------------------------------------------------------------
\* One execution of a replay script: the facade has written the request into
\* the run directory and launched the host with the run directory as working
\* directory; main() can raise at each of its steps; the facade reads the
\* response after the exit.

InitMain ==
    /\ FacadeAtRest
    /\ api = ApiIdle
    /\ install = InstallIdle
    /\ convert = ConvertIdle
    /\ tool = ToolIdle
    /\ \E o \in ReplayOps, c \in Calls :
          script = [ScriptIdle EXCEPT
                       !.op = o, !.pc = "main", !.wd = RunDirPath,
                       !.request = RequestOf(c),
                       !.files = [f \in ScriptFilePaths |->
                                     IF f = RunDirPath \o <<RequestName(o)>>
                                     THEN RequestFile(RequestOf(c)) ELSE NoFile]]

\* open(name): a relative name is resolved against the working directory.
Opened(name) == join(script.wd, <<name>>)

MainSteps(scr) == scr.op \in ReplayOps /\ UNCHANGED <<tool, convert, install, api, facade>>

\* with open(REQ_PATH) as f: req = json.load(f)
MainReadRequest ==
    /\ script.pc = "main"
    /\ LET found == script.files[Opened(ScriptReqPath(script.op))]
       IN script' = IF found.kind = "request"
                    THEN [script EXCEPT !.pc = "replay", !.req = found]
                    ELSE [script EXCEPT !.pc = "except", !.raised = "open"]
    /\ MainSteps(script)

\* Opening and replaying the capture: any step can raise RuntimeError.
MainReplay ==
    /\ script.pc = "replay"
    /\ \/ script' = [script EXCEPT !.pc = "write_response"]
       \/ script' = [script EXCEPT !.pc = "except", !.raised = "replay"]
    /\ MainSteps(script)

\* write_response(payload) in main(): json.dump can raise after open(.., "w").
MainWriteResponse ==
    /\ script.pc = "write_response"
    /\ LET at == Opened(ScriptRespPath(script.op))
           payload == BarePayload(script.req.body)
       IN \/ script' = [script EXCEPT !.pc = "finally", !.payload = payload,
                                      !.files = [@ EXCEPT ![at] = payload]]
          \/ script' = [script EXCEPT !.pc = "except", !.raised = "write_response",
                                      !.files = [@ EXCEPT ![at] = Garbage]]
    /\ MainSteps(script)

\* finally: .. rd.ShutdownReplay(), which is not guarded.
MainFinally ==
    /\ script.pc = "finally"
    /\ \/ script' = [script EXCEPT !.pc = "else"]
       \/ script' = [script EXCEPT !.pc = "except", !.raised = "finally"]
    /\ MainSteps(script)

\* except Exception: ..
MainExcept ==
    /\ script.pc = "except"
    /\ LET at == Opened(ScriptRespPath(script.op))
       IN script' = [script EXCEPT
                        !.pc = "exit",
                        !.files = [@ EXCEPT ![at] = except_Exception(@)]]
    /\ MainSteps(script)

\* else: ..
MainElse ==
    /\ script.pc = "else"
    /\ LET at == Opened(ScriptRespPath(script.op))
       IN script' = [script EXCEPT
                        !.pc = "exit",
                        !.files = [@ EXCEPT ![at] = else_wrap(@)]]
    /\ MainSteps(script)

\* raise SystemExit(0)
MainExit ==
    /\ script.pc = "exit"
    /\ script' = [script EXCEPT !.pc = "exited", !.status = 0]
    /\ MainSteps(script)

\* The facade, after the host's exit: std::fs::read(&response_path).
FacadeReadResponse ==
    /\ script.pc = "exited"
    /\ script.op \in ReplayOps
    /\ script.read = NoFile
    /\ script.files[RunDirPath \o <<ResponseName(script.op)>>] # NoFile
    /\ script' = [script EXCEPT
                     !.read = script.files[RunDirPath \o <<ResponseName(script.op)>>]]
    /\ MainSteps(script)

NextMain ==
    \/ MainReadRequest \/ MainReplay \/ MainWriteResponse \/ MainFinally
    \/ MainExcept \/ MainElse \/ MainExit \/ FacadeReadResponse

SpecMain == InitMain /\ [][NextMain]_vars

ResponseLeft == script.files[RunDirPath \o <<ScriptRespPath(script.op)>>]

\* C24: once the __main__ block of a replay script has run to its exit, the
\* exit status is 0 and the response file holds the failure envelope when
\* main() raised, wherever it raised, and the success envelope around the
\* payload main() wrote when main() returned; it never holds the bare payload.
C24_AlwaysEnvelope ==
    (script.op \in ReplayOps /\ script.pc = "exited") =>
        /\ script.status = 0
        /\ ResponseLeft.kind = "envelope"
        /\ script.raised # "no"
              => ResponseLeft = Envelope("false", JAbsent, JString("traceback"))
        /\ script.raised = "no"
              => /\ script.payload.kind = "payload"
                 /\ ResponseLeft = Envelope("true", JObject(script.payload.body), JAbsent)

\* main() raised in its finally block, after writing its payload.
C24_Witness ==
    /\ script.op = "replay_list_textures"
    /\ script.pc = "exited"
    /\ script.raised = "finally"
    /\ script.payload.kind = "payload"
    /\ ResponseLeft.ok = "false"

\* C26: for every replay operation the facade's request and response file
\* names equal the script's REQ_PATH and RESP_PATH, which are relative and
\* resolve into the run directory the host works in; the script loads the
\* request the facade wrote and the facade reads the file the script left.
C26_NamesAgree ==
    /\ \A o \in ReplayOps :
          /\ RequestName(o) = ScriptReqPath(o)
          /\ ResponseName(o) = ScriptRespPath(o)
          /\ ~is_absolute(<<ScriptReqPath(o)>>)
          /\ ~is_absolute(<<ScriptRespPath(o)>>)
    /\ script.op \in ReplayOps =>
          /\ Opened(ScriptReqPath(script.op)) = RunDirPath \o <<RequestName(script.op)>>
          /\ Opened(ScriptRespPath(script.op)) = RunDirPath \o <<ResponseName(script.op)>>
          /\ script.pc \notin {"main", "except"}
                => script.req = RequestFile(script.request)
          /\ script.pc = "exited" /\ script.read # NoFile
                => script.read = ResponseLeft /\ script.read.kind = "envelope"

\* The facade has read the success envelope the save-texture script left.
C26_Witness ==
    /\ script.op = "replay_save_texture_png"
    /\ script.pc = "exited"
    /\ script.read = Envelope("true", JObject(Payload(script.request)), JAbsent)

\* C29: when deleting the response artifact fails with an error other than
\* not-found, the call returns the WriteRequest error kind, its request
\* artifact is not written and no host process is spawned for it.
C29_GuardFailure ==
    \A c \in Calls :
        (guard[c].ran /\ guard[c].os \notin {"Removed", "NotFound"}) =>
            /\ Returned(c)
            /\ outcome[c] = Err("WriteRequest")
            /\ ~Executed(c, "write_request")
            /\ ReadFile(request_path(c)) = NoFile
            /\ host[c].state = "none"

\* One call's deletion was refused while another call went on to its host.
C29_Witness ==
    \E c, d \in Calls :
        /\ guard[c].ran /\ guard[c].os = "PermissionDenied"
        /\ outcome[c].kind = "WriteRequest"
        /\ host[d].state = "exited"

----------------------------------------------------------------------------
\* Progress.  A facade call is straight-line synchronous code: each of its
\* own steps, once reached, is executed.  Nothing is assumed about the host:
\* the process may never exit, and then run_qrenderdoc_python never returns.

FacadeStep(c) ==
    \/ CreateScriptsDir(c) \/ WriteScriptOpen(c) \/ WriteScript(c)
    \/ CreateRunDir(c) \/ RemoveIfExists(c) \/ WriteRequest(c)
    \/ RunQRenderDocPython(c) \/ ReadResponse(c)

SpecLive == Spec /\ \A c \in Calls : WF_vars(FacadeStep(c))

WaitingOnHost(c) ==
    pc[c] = "run_qrenderdoc_python" /\ host[c].state \in {"running", "read"}

\* C27: every call eventually returns unless it waits forever at the host
\* invocation for a process that never exits; a returned call has one
\* outcome, Ok or one error, which never changes; a call that failed before
\* the host invocation has no process.  Returning is final, so "returns, or
\* waits on the host for ever" is "from some point on, has returned or is
\* waiting on the host".
C27_Termination ==
    /\ \A c \in Calls : <>[](Returned(c) \/ WaitingOnHost(c))
    /\ [](\A c \in Calls :
             /\ Returned(c) <=> outcome[c] # Pending
             /\ (Returned(c) /\ ~Executed(c, "run_qrenderdoc_python"))
                   => host[c].state = "none")
    /\ [][\A c \in Calls : Returned(c) => outcome'[c] = outcome[c]]_vars

\* One call has returned after its host exited while the other call is
\* still waiting for its host.
C27_Witness ==
    \E c, d \in Calls :
        /\ Returned(c) /\ host[c].state = "exited"
        /\ WaitingOnHost(d)

====
